---- MODULE Spec2Model ----
(***************************************************************************)
(* Session state machine of the multiplayer-piano relay server             *)
(* (src/src/server.rs, src/src/handlers.rs, src/src/types.rs).             *)
(*                                                                         *)
(* One task per connection runs Server::handle_connection; the handlers it *)
(* dispatches are cut into steps at every point where the code acquires an *)
(* entity lock (tokio::sync::RwLock of a Channel or a ClientData) while it *)
(* may have to wait, so that tasks interleave exactly where the runtime    *)
(* lets them.  A lock that is taken, used and dropped without touching a   *)
(* second lock is one step.                                                *)
(*                                                                         *)
(* DashMap guards: a Ref returned by get() keeps the entry's shard         *)
(* read-locked until it is dropped, and insert()/remove() need the shard   *)
(* write-locked.  Keys are taken to hash to distinct shards, so a Ref      *)
(* blocks insert()/remove() of its own key only.  The Refs a task holds    *)
(* follow from its position (HoldsClientRef, HoldsChanRef).                *)
(*                                                                         *)
(* Left out of the records: colours, names, the crown's time and          *)
(* positions, and the chat history.                                        *)
(*                                                                         *)
(* In Spec a frame is written to the transport in the step that enqueues   *)
(* it (outbox holds the frames of the last step only).  WriterSpec keeps   *)
(* the queues and the writer tasks themselves.                             *)
(***************************************************************************)
EXTENDS Integers, Sequences, FiniteSets, TLC

(***************************************************************************)
(* Bounds of the model.                                                    *)
(***************************************************************************)
\* events a connection sends before it only closes
MaxEvents == 2
\* times the wall clock is observed to have advanced
MaxAdvances == 1

\* connection ids; user_id = client_id (server.rs:58)
Cids == {"c1", "c2"}
\* the keys Server.channels can hold
ChannelIds == {"lobby", "r1", "r2", "test/awkward"}
\* channel ids the clients of Spec name in `ch`
JoinIds == {"lobby", "r1", "test/awkward"}
\* the ids among ChannelIds that start with "test/"
TestIds == {"test/awkward"}
\* the clock advances by one of these amounts (ms)
ClockJumps == {60000, 86400000}
\* `ms` of a kickban: one minute, ten days
KickMs == {60000, 864000000}

\* 24 * 60 * 60 * 1000, the cap on a ban's duration
MaxBanMs == 86400000

\* None of an Option<String>
None == "none"
\* None of an Option of a record, and a key a map does not hold
Nil == [nil |-> TRUE]

VARIABLES
    channels,       \* Server.channels: id -> Channel or Nil
    clients,        \* Server.clients: cid -> ClientData or Nil
    subscribedToLs, \* Server.subscribed_to_ls (its keys)
    bannedUsers,    \* Server.banned_users: user id -> BanInfo or Nil
    wsSenders,      \* Server.ws_senders (its keys)
    outbox,         \* frames in each connection's mpsc queue, not yet written
    transport,      \* each connection's WebSocket sink, as WriterSpec sees it
    conn,           \* each connection: the id its address derives, the text
                    \* frames its peer sends and how many of their items the
                    \* reader loop has thrown away (FrameSpec), and whether
                    \* its tx is the value ws_senders holds under that id
    chanLock,       \* the RwLock of each Channel: writer and readers (tasks)
    clientLock,     \* the RwLock of each ClientData
    pc,             \* position of each connection task
    loc,            \* locals of the handler a task is running
    evCount,        \* events a connection has sent
    now,            \* current_time_ms()
    advances        \* clock advances so far

vars == <<channels, clients, subscribedToLs, bannedUsers, wsSenders, outbox,
          transport, conn, chanLock, clientLock, pc, loc, evCount, now,
          advances>>

registry == <<channels, clients, subscribedToLs, bannedUsers, wsSenders>>

(***************************************************************************)
(* Values                                                                  *)
(***************************************************************************)
IsSpecial(id) == id = "lobby" \/ id \in TestIds

FreeLock == [w |-> None, r |-> {}]

\* locals of a handler: a, k, old, user, part belong to handle_channel (part
\* is its clone of the client's participant); chan, uid,
\* tcid, ms, kb, set to the admin handlers and handle_disconnect; bk, bf, bx
\* are the arguments of the pending broadcast; ret is the rest of the handler
\* after it; refs are the channel keys the task holds a DashMap Ref on
NoLoc == [a |-> None, k |-> None, old |-> None, user |-> None,
          chan |-> None, uid |-> None, tcid |-> None, ms |-> 0, kb |-> FALSE,
          set |-> Nil, origin |-> None,
          bk |-> None, bf |-> <<None, None>>, bx |-> None, ret |-> <<>>,
          refs |-> {}, part |-> Nil]

(***************************************************************************)
(* NoteQuota (types.rs).  points, allowance and max are i32; the sums,     *)
(* products and differences below are the two's-complement results, built  *)
(* so that no intermediate value leaves the 32-bit range.                  *)
(***************************************************************************)
\* i32::MAX and i32::MIN
MaxI32 == 2147483647
MinI32 == -MaxI32 - 1
\* 2^16 and 2^15, to multiply in halves
Half == 65536
HalfSign == 32768

\* NoteQuota::new: max, allowance, max_hist_len
MaxPoints == 24000
Allowance == 8000
MaxHistLen == 3

AddOverflows(a, b) ==
    \/ a > 0 /\ b > 0 /\ a > MaxI32 - b
    \/ a < 0 /\ b < 0 /\ a < MinI32 - b

\* a + b in i32, wrapping
AddI32(a, b) ==
    IF a > 0 /\ b > 0 /\ a > MaxI32 - b THEN (a + MinI32) + (b + MinI32)
    ELSE IF a < 0 /\ b < 0 /\ a < MinI32 - b THEN (a - MinI32) + (b - MinI32)
    ELSE a + b

SubOverflows(a, b) ==
    \/ b < 0 /\ a > MaxI32 + b
    \/ b > 0 /\ a < MinI32 + b

\* a - b in i32, wrapping
SubI32(a, b) ==
    IF b < 0 /\ a > MaxI32 + b THEN ((a + MinI32) - b) + MinI32
    ELSE IF b > 0 /\ a < MinI32 + b THEN ((a - MinI32) - b) - MinI32
    ELSE a - b

\* n * a exceeds i32, for 0 <= n and 0 < a < 2^16
MulOverflows(n, a) == n > MaxI32 \div a

\* n * a in i32, wrapping, for 0 <= n and 0 < a < 2^16
MulI32(n, a) ==
    LET lo == (n % Half) * a
        hi == ((n \div Half) * a + (lo \div Half)) % Half
    IN  IF hi >= HalfSign THEN (hi - Half) * Half + (lo % Half)
        ELSE hi * Half + (lo % Half)

\* history.iter().sum() in i32, wrapping
RECURSIVE SumI32(_)
SumI32(h) == IF h = <<>> THEN 0 ELSE AddI32(Head(h), SumI32(Tail(h)))

RECURSIVE SumOverflows(_)
SumOverflows(h) ==
    h # <<>> /\ (SumOverflows(Tail(h))
                    \/ AddOverflows(Head(h), SumI32(Tail(h))))

\* NoteQuota::new
NoteQuotaNew ==
    [points |-> MaxPoints, history |-> [i \in 1..MaxHistLen |-> MaxPoints]]

\* NoteQuota::tick
tick(q) ==
    LET pushed == <<q.points>> \o q.history
        hist == IF Len(pushed) > MaxHistLen
                THEN SubSeq(pushed, 1, MaxHistLen) ELSE pushed
        more == AddI32(q.points, Allowance)
    IN  [points |-> IF q.points < MaxPoints
                    THEN (IF more > MaxPoints THEN MaxPoints ELSE more)
                    ELSE q.points,
         history |-> hist]

\* num_needed of NoteQuota::spend
NumNeeded(q, needed) ==
    IF SumI32(q.history) <= 0 THEN MulI32(needed, Allowance) ELSE needed

\* a spend that takes the points before it compares
spend_ChargedOnReject(q, needed) ==
    [ok |-> q.points >= NumNeeded(q, needed),
     q |-> [q EXCEPT !.points = SubI32(@, NumNeeded(q, needed))]]

\* NoteQuota::spend: whether it returns true, and the quota it leaves
spend(q, needed) ==
    IF q.points < NumNeeded(q, needed)
    THEN [ok |-> FALSE, q |-> q]
    ELSE [ok |-> TRUE,
          q |-> [q EXCEPT !.points = SubI32(@, NumNeeded(q, needed))]]

\* an arithmetic step of spend leaves i32: the build either wraps (the
\* results above) or panics
SpendOverflows(q, needed) ==
    \/ SumOverflows(q.history)
    \/ SumI32(q.history) <= 0 /\ MulOverflows(needed, Allowance)
    \/ /\ q.points >= NumNeeded(q, needed)
       /\ SubOverflows(q.points, NumNeeded(q, needed))

NewClientData(cid) ==
    [user_id |-> cid, participant |-> Nil, channel_id |-> None,
     last_move_time |-> <<>>, note_quota |-> NoteQuotaNew]

DefaultParticipant(cid, uid) == [id |-> cid, _id |-> uid, x |-> 0, y |-> 0]

create_default_channel(id) ==
    [_id |-> id,
     settings |-> IF IsSpecial(id)
                  THEN [lobby |-> TRUE, visible |-> TRUE, chat |-> <<TRUE>>,
                        crownsolo |-> <<>>]
                  ELSE [lobby |-> FALSE, visible |-> TRUE, chat |-> <<>>,
                        crownsolo |-> <<>>],
     crown |-> IF IsSpecial(id) THEN Nil
               ELSE [participant_id |-> None, user_id |-> None],
     participants |-> {},
     ppl |-> [c \in Cids |-> Nil],
     chat_history |-> <<>>]

(***************************************************************************)
(* Locks                                                                   *)
(***************************************************************************)
CanRead(L, x) == L[x].w = None
CanWrite(L, x) == L[x].w = None /\ L[x].r = {}
AcqRead(L, x, t) == [L EXCEPT ![x].r = @ \cup {t}]
AcqWrite(L, x, t) == [L EXCEPT ![x].w = t]
RelRead(L, x, t) == [L EXCEPT ![x].r = @ \ {t}]
RelWrite(L, x, t) == [L EXCEPT ![x].w = None]
\* every guard of the task is dropped when its handler returns
ReleaseAll(L, t) ==
    [x \in DOMAIN L |->
        [w |-> IF L[x].w = t THEN None ELSE L[x].w, r |-> L[x].r \ {t}]]

\* entity locks task t holds
HeldLocks(t) ==
    {<<"channel", k>> : k \in {x \in ChannelIds :
                                 chanLock[x].w = t \/ t \in chanLock[x].r}}
    \cup
    {<<"client", c>> : c \in {x \in Cids :
                                 clientLock[x].w = t \/ t \in clientLock[x].r}}

(***************************************************************************)
(* DashMap Refs held across steps                                          *)
(***************************************************************************)
\* task t keeps a Ref into clients for key c: the client_ref of
\* handle_channel (handlers.rs:396), the target_ref of handle_chown
\* (handlers.rs:634), the client_ref of the crown transfer (server.rs:167)
HoldsClientRef(t, c) ==
    \/ loc[t].a = c
    \/ pc[t] \in {"chown_target", "disc_crown_user"} /\ loc[t].tcid = c

\* task t keeps a Ref into channels for key k
HoldsChanRef(t, k) == k \in loc[t].refs

(***************************************************************************)
(* Outbound frames: a frame is <<m, what it is about>>.  No handler reads  *)
(* a queue, and the writer tasks (server.rs:77-86) are scheduled eagerly:  *)
(* whatever a step enqueued has been written when the next step begins, so *)
(* after a step outbox holds exactly what that step enqueued.              *)
(***************************************************************************)
Drained == [c \in Cids |-> <<>>]

\* Server::send_to_client
send_to_client(ob, cid, f) ==
    IF cid \in wsSenders THEN [ob EXCEPT ![cid] = Append(@, f)] ELSE ob

\* the fan-out loop of broadcast_to_channel / broadcast_ls_update
SendEach(ob, S, f) ==
    [c \in Cids |-> IF c \in S /\ c \in wsSenders THEN Append(ob[c], f)
                    ELSE ob[c]]

Participants(k) == IF channels[k] = Nil THEN {} ELSE channels[k].participants

(***************************************************************************)
(* Init: Server::new()                                                     *)
(***************************************************************************)
\* a connection that derives its own id (the ids are random unless NODE_ENV
\* is production), before ws_senders.insert
NewConn(t) ==
    [id |-> t, frames |-> <<>>, skipped |-> 0, tx_stored |-> FALSE]

\* the connections when those of S have registered their senders
Conns(S) == [t \in Cids |-> [NewConn(t) EXCEPT !.tx_stored = t \in S]]

\* the client id of connection t: generate_client_id(ip)
IdOf(t) == conn[t].id

\* a sink nothing has been written to
NewTransport == [written |-> <<>>, failed |-> FALSE]

Init ==
    /\ transport = [c \in Cids |-> NewTransport]
    /\ conn = Conns({})
    /\ channels = [k \in ChannelIds |-> Nil]
    /\ clients = [c \in Cids |-> Nil]
    /\ subscribedToLs = {}
    /\ bannedUsers = [u \in Cids |-> Nil]
    /\ wsSenders = {}
    /\ outbox = [c \in Cids |-> <<>>]
    /\ chanLock = [k \in ChannelIds |-> FreeLock]
    /\ clientLock = [c \in Cids |-> FreeLock]
    /\ pc = [c \in Cids |-> "new"]
    /\ loc = [c \in Cids |-> NoLoc]
    /\ evCount = [c \in Cids |-> 0]
    /\ now = 0
    /\ advances = 0

(***************************************************************************)
(* Control                                                                 *)
(***************************************************************************)
\* the locals handle_kickban keeps while and after it calls handle_channel
KickLoc(l) == [NoLoc EXCEPT !.chan = l.chan, !.uid = l.uid, !.tcid = l.tcid,
                            !.ms = l.ms, !.kb = TRUE, !.refs = {l.chan}]

\* handle_channel returns: to the reader loop, or into handle_kickban
AfterChannel(t) == IF loc[t].kb THEN "kb_notify" ELSE "idle"

\* the handler of task t returns; every guard it holds is dropped
Return(t) ==
    /\ pc' = [pc EXCEPT ![t] = "idle"]
    /\ loc' = [loc EXCEPT ![t] = NoLoc]
    /\ chanLock' = ReleaseAll(chanLock, t)
    /\ clientLock' = ReleaseAll(clientLock, t)

\* handle_channel of task t returns
ReturnChannel(t) ==
    /\ pc' = [pc EXCEPT ![t] = AfterChannel(t)]
    /\ loc' = [loc EXCEPT ![t] = IF loc[t].kb THEN KickLoc(@) ELSE NoLoc]
    /\ chanLock' = ReleaseAll(chanLock, t)
    /\ clientLock' = ReleaseAll(clientLock, t)

\* the rest of the handler after a broadcast
Continue(t) ==
    LET to == Head(loc[t].ret) IN
    IF to = "idle" THEN Return(t)
    ELSE IF to = "ch_end" THEN ReturnChannel(t)
    ELSE /\ pc' = [pc EXCEPT ![t] = to]
         /\ loc' = [loc EXCEPT ![t].ret = Tail(@)]
         /\ UNCHANGED <<chanLock, clientLock>>

\* the reader loop takes the next event of a text frame
Receives(t) ==
    /\ pc[t] = "idle"
    /\ evCount[t] < MaxEvents
    /\ evCount' = [evCount EXCEPT ![t] = @ + 1]

(***************************************************************************)
(* Server::handle_connection, lines 50-72                                  *)
(***************************************************************************)
Connect(t) ==
    /\ UNCHANGED transport
    /\ pc[t] = "new"
    /\ clients' = IF clients[IdOf(t)] = Nil
                  THEN [clients EXCEPT ![IdOf(t)] = NewClientData(IdOf(t))]
                  ELSE clients
    \* ws_senders.insert replaces the tx another connection stored
    /\ wsSenders' = wsSenders \cup {IdOf(t)}
    /\ conn' = [u \in Cids |->
                   IF IdOf(u) = IdOf(t)
                   THEN [conn[u] EXCEPT !.tx_stored = (u = t)]
                   ELSE conn[u]]
    /\ pc' = [pc EXCEPT ![t] = "idle"]
    /\ UNCHANGED <<channels, subscribedToLs, bannedUsers, chanLock,
                   clientLock, loc, evCount, now, advances>>
    /\ outbox' = Drained

\* the period of the ticker task, in ms
TickMs == 1000

\* the map the ticker task iterates: the clone of Server.clients taken in
\* Server::new (server.rs:30), when no client has connected; inserts into
\* Server.clients do not reach it
TickerClients == [c \in Cids |-> Nil]

\* n firings of tick() on one quota; nothing changes once a firing changes
\* nothing
RECURSIVE Ticks(_, _)
Ticks(q, n) ==
    IF n = 0 \/ tick(q) = q THEN q ELSE Ticks(tick(q), n - 1)

\* Server.clients after the ticker task has fired n times (server.rs:31-40)
Ticked(n) ==
    [c \in Cids |->
        IF TickerClients[c] # Nil /\ clients[c] # Nil
        THEN [clients[c] EXCEPT !.note_quota = Ticks(@, n)]
        ELSE clients[c]]

\* current_time_ms() is seen to have advanced by d ms; the 1 Hz ticker has
\* fired once for every second of them
AdvanceClock(d) ==
    /\ UNCHANGED <<transport, conn>>
    /\ advances < MaxAdvances
    /\ now' = now + d
    /\ advances' = advances + 1
    /\ clients' = Ticked(d \div TickMs)
    /\ UNCHANGED <<channels, subscribedToLs, bannedUsers, wsSenders,
                   chanLock, clientLock, pc, loc, evCount>>
    /\ outbox' = Drained

\* a broadcast that sends to the excluded client too
Recipients_ExcludeIgnored(k, x) == Participants(k)

\* lines 220-221: the participants a broadcast to k excluding x is sent to
Recipients(k, x) == Participants(k) \ {x}

(***************************************************************************)
(* Server::broadcast_to_channel, called with (loc.bk, loc.bf, loc.bx)      *)
(***************************************************************************)
broadcast_to_channel(t) ==
    /\ UNCHANGED <<transport, conn>>
    /\ pc[t] = "bcast"
    /\ LET k == loc[t].bk IN
       /\ channels[k] # Nil => CanRead(chanLock, k)
       /\ outbox' = IF channels[k] = Nil THEN Drained
                    ELSE SendEach(Drained, Recipients(k, loc[t].bx),
                                  loc[t].bf)
    /\ Continue(t)
    /\ UNCHANGED <<registry, evCount, now, advances>>

\* the `ls` update of one channel
LsEntry(k) == <<"ls", k>>

\* a directory that lists hidden channels too
Listed_HiddenToo(k) == channels[k] # Nil

\* channel k gets an entry in `ls` frames: it exists and settings.visible
Listed(k) == channels[k] # Nil /\ channels[k].settings.visible

(***************************************************************************)
(* Server::broadcast_ls_update, called with loc.bk                         *)
(***************************************************************************)
broadcast_ls_update(t) ==
    /\ UNCHANGED <<transport, conn>>
    /\ pc[t] = "ls_update"
    /\ LET k == loc[t].bk IN
       /\ channels[k] # Nil => CanRead(chanLock, k)
       /\ outbox' = IF ~Listed(k) THEN Drained
                    ELSE SendEach(Drained, subscribedToLs, LsEntry(k))
    /\ Continue(t)
    /\ UNCHANGED <<registry, evCount, now, advances>>

\* locals of a task about to call broadcast_to_channel(k, f, x), `ret` being
\* what the handler does after it
Bcast(l, k, f, x, ret) ==
    [l EXCEPT !.bk = k, !.bf = f, !.bx = x, !.ret = ret]

(***************************************************************************)
(* MessageHandler::handle_hi                                               *)
(***************************************************************************)
handle_hi(t) ==
    /\ UNCHANGED <<transport, conn>>
    /\ Receives(t)
    /\ IF clients[t] = Nil
       THEN UNCHANGED clients /\ outbox' = Drained
       ELSE /\ CanWrite(clientLock, t)
            /\ clients' = [clients EXCEPT ![t].participant =
                              DefaultParticipant(t, clients[t].user_id)]
            /\ outbox' = send_to_client(Drained, t, <<"hi", t>>)
    /\ UNCHANGED <<channels, subscribedToLs, bannedUsers, wsSenders, chanLock,
                   clientLock, pc, loc, now, advances>>

(***************************************************************************)
(* MessageHandler::handle_plus_ls / handle_minus_ls                        *)
(***************************************************************************)
handle_plus_ls(t) ==
    /\ UNCHANGED <<transport, conn>>
    /\ Receives(t)
    /\ subscribedToLs' = subscribedToLs \cup {t}
    /\ pc' = [pc EXCEPT ![t] = "ls_reply"]
    /\ UNCHANGED <<channels, clients, bannedUsers, wsSenders, chanLock, clientLock, loc, now, advances>>
    /\ outbox' = Drained

\* lines 115-132: every channel is read under its read lock
PlusLsReply(t) ==
    /\ UNCHANGED <<transport, conn>>
    /\ pc[t] = "ls_reply"
    /\ \A k \in ChannelIds : channels[k] # Nil => CanRead(chanLock, k)
    /\ outbox' = send_to_client(Drained, t,
                    <<"ls_list", {k \in ChannelIds : Listed(k)}>>)
    /\ pc' = [pc EXCEPT ![t] = "idle"]
    /\ UNCHANGED <<registry, chanLock, clientLock, loc, evCount, now,
                   advances>>

\* a `-ls` that subscribes a connection that was not subscribed
handle_minus_ls_Toggle(t) ==
    /\ UNCHANGED <<transport, conn>>
    /\ Receives(t)
    /\ subscribedToLs' = IF IdOf(t) \in subscribedToLs
                         THEN subscribedToLs \ {IdOf(t)}
                         ELSE subscribedToLs \cup {IdOf(t)}
    /\ UNCHANGED <<channels, clients, bannedUsers, wsSenders, chanLock, clientLock, pc, loc, now, advances>>
    /\ outbox' = Drained

\* handlers.rs:135-137
handle_minus_ls(t) ==
    /\ UNCHANGED <<transport, conn>>
    /\ Receives(t)
    /\ subscribedToLs' = subscribedToLs \ {IdOf(t)}
    /\ UNCHANGED <<channels, clients, bannedUsers, wsSenders, chanLock, clientLock, pc, loc, now, advances>>
    /\ outbox' = Drained

(***************************************************************************)
(* Server::handle_disconnect                                               *)
(***************************************************************************)
\* lines 141-145: the client's read guard is taken and kept
DisconnectStart(t, origin) ==
    LET c == clients[IdOf(t)] IN
    IF c = Nil \/ (c # Nil /\ (c.channel_id = None
                                 \/ channels[c.channel_id] = Nil))
    THEN /\ c # Nil => CanRead(clientLock, IdOf(t))
         /\ pc' = [pc EXCEPT ![t] = "disc_cleanup"]
         /\ loc' = [loc EXCEPT ![t] = [NoLoc EXCEPT !.origin = origin]]
         /\ UNCHANGED clientLock
    ELSE /\ CanRead(clientLock, IdOf(t))
         /\ clientLock' = AcqRead(clientLock, IdOf(t), t)
         /\ pc' = [pc EXCEPT ![t] = "disc_lock"]
         /\ loc' = [loc EXCEPT ![t] =
                       [NoLoc EXCEPT !.origin = origin,
                                     !.chan = c.channel_id,
                                     !.refs = {c.channel_id}]]

\* handlers.rs:108
handle_bye(t) ==
    /\ UNCHANGED <<transport, conn>>
    /\ Receives(t)
    /\ DisconnectStart(t, "bye")
    /\ UNCHANGED <<registry, chanLock, now, advances>>
    /\ outbox' = Drained

\* server.rs:119-132: Close frame or transport error ends the reader loop
Close(t) ==
    /\ UNCHANGED <<transport, conn>>
    /\ pc[t] = "idle"
    /\ DisconnectStart(t, "close")
    /\ UNCHANGED <<registry, chanLock, evCount, now, advances>>
    /\ outbox' = Drained

\* a removal that leaves the crown with the client that went
CrownWithout_Kept(crown, cid) == crown

\* the crown after `cid` is taken out (server.rs:150-155, handlers.rs:439-444)
CrownWithout(crown, cid) ==
    IF crown # Nil /\ crown.participant_id = cid
    THEN [participant_id |-> None, user_id |-> None]
    ELSE crown

\* lines 146-174: the channel's write guard is taken and kept
DisconnectLock(t) ==
    /\ UNCHANGED <<transport, conn>>
    /\ pc[t] = "disc_lock"
    /\ LET k == loc[t].chan
           ch == channels[k]
           parts == ch.participants \ {t}
           crown == CrownWithout(ch.crown, t)
           bye == Bcast(loc[t], k, <<"bye", t>>, t, <<"disc_after">>)
       IN
       /\ CanWrite(chanLock, k)
       /\ chanLock' = AcqWrite(chanLock, k, t)
       /\ IF crown # Nil /\ crown.participant_id = None /\ parts # {}
          THEN \E first \in parts :
                 /\ channels' = [channels EXCEPT ![k] =
                        [ch EXCEPT !.participants = parts,
                                   !.ppl[t] = Nil,
                                   !.crown = [crown EXCEPT
                                                !.participant_id = first]]]
                 /\ IF clients[first] # Nil
                    THEN /\ pc' = [pc EXCEPT ![t] = "disc_crown_user"]
                         /\ loc' = [loc EXCEPT ![t] =
                                       [bye EXCEPT !.tcid = first]]
                    ELSE /\ pc' = [pc EXCEPT ![t] = "bcast"]
                         /\ loc' = [loc EXCEPT ![t] = bye]
          ELSE /\ channels' = [channels EXCEPT ![k] =
                      [ch EXCEPT !.participants = parts, !.ppl[t] = Nil,
                                 !.crown = crown]]
               /\ pc' = [pc EXCEPT ![t] = "bcast"]
               /\ loc' = [loc EXCEPT ![t] = bye]
    /\ UNCHANGED <<clients, subscribedToLs, bannedUsers, wsSenders, clientLock, evCount, now, advances>>
    /\ outbox' = Drained

\* lines 167-170: the new holder's ClientData is read for its user id
DisconnectCrownUser(t) ==
    /\ UNCHANGED <<transport, conn>>
    /\ pc[t] = "disc_crown_user"
    /\ CanRead(clientLock, loc[t].tcid)
    /\ channels' = [channels EXCEPT ![loc[t].chan].crown.user_id =
                       clients[loc[t].tcid].user_id]
    /\ pc' = [pc EXCEPT ![t] = "bcast"]
    /\ loc' = [loc EXCEPT ![t].tcid = None]
    /\ UNCHANGED <<clients, subscribedToLs, bannedUsers, wsSenders, chanLock, clientLock, evCount, now, advances>>
    /\ outbox' = Drained

\* lines 184-198, and line 133 when the reader loop has ended
DisconnectCleanup(t) ==
    /\ UNCHANGED transport
    /\ pc[t] \in {"disc_after", "disc_cleanup"}
    /\ LET k == loc[t].chan
           empty == /\ pc[t] = "disc_after"
                    /\ channels[k].participants = {}
                    /\ ~IsSpecial(channels[k]._id)
       IN
       \* channels.remove(): no Ref into the entry may be alive
       /\ empty => \A u \in Cids : ~HoldsChanRef(u, k)
       /\ channels' = IF empty THEN [channels EXCEPT ![k] = Nil]
                      ELSE channels
    \* clients.remove(): no Ref into the entry may be alive
    /\ \A u \in Cids \ {t} : ~HoldsClientRef(u, IdOf(t))
    /\ subscribedToLs' = subscribedToLs \ {IdOf(t)}
    /\ clients' = [clients EXCEPT ![IdOf(t)] = Nil]
    /\ chanLock' = ReleaseAll(chanLock, t)
    /\ clientLock' = ReleaseAll(clientLock, t)
    /\ IF loc[t].origin = "close"
       THEN /\ wsSenders' = wsSenders \ {IdOf(t)}
            /\ conn' = [u \in Cids |->
                           IF IdOf(u) = IdOf(t)
                           THEN [conn[u] EXCEPT !.tx_stored = FALSE]
                           ELSE conn[u]]
            /\ pc' = [pc EXCEPT ![t] = "closed"]
       ELSE /\ UNCHANGED <<wsSenders, conn>>
            /\ pc' = [pc EXCEPT ![t] = "idle"]
    /\ loc' = [loc EXCEPT ![t] = NoLoc]
    /\ UNCHANGED <<bannedUsers, evCount, now, advances>>
    /\ outbox' = Drained

(***************************************************************************)
(* MessageHandler::handle_channel for client a and target id k, run by     *)
(* task t (a = t for a `ch` event, a = the target for a kickban)           *)
(***************************************************************************)
\* the ban check with its expiry comparison turned around
Banned_ExpiryInverted(uid, k) ==
    /\ bannedUsers[uid] # Nil
    /\ bannedUsers[uid].channel_id = k
    /\ bannedUsers[uid].expiry < now

\* the ban check of lines 405-406
Banned(uid, k) ==
    /\ bannedUsers[uid] # Nil
    /\ bannedUsers[uid].channel_id = k
    /\ bannedUsers[uid].expiry > now

\* lines 396-426
ChannelStart(t, a, k) ==
    IF clients[a] = Nil
    THEN /\ ReturnChannel(t)
         /\ outbox' = Drained
    ELSE /\ CanRead(clientLock, a)
         /\ IF Banned(clients[a].user_id, k)
            THEN /\ outbox' = send_to_client(Drained, a,
                                             <<"notification", "banned">>)
                 /\ ReturnChannel(t)
            ELSE /\ outbox' = Drained
                 /\ pc' = [pc EXCEPT ![t] = IF channels[k] = Nil
                                            THEN "ch_create"
                                            ELSE "ch_lock_client"]
                 /\ loc' = [loc EXCEPT ![t].a = a, ![t].k = k,
                                       ![t].user = clients[a].user_id]
                 /\ UNCHANGED <<chanLock, clientLock>>

handle_channel(t, k) ==
    /\ UNCHANGED <<transport, conn>>
    /\ Receives(t)
    /\ ChannelStart(t, t, k)
    /\ UNCHANGED <<registry, now, advances>>

\* lines 427-428: channels.insert() waits while a Ref into the entry is alive
ChannelCreate(t) ==
    /\ UNCHANGED <<transport, conn>>
    /\ pc[t] = "ch_create"
    /\ \A u \in Cids : ~HoldsChanRef(u, loc[t].k)
    /\ channels' = [channels EXCEPT ![loc[t].k] =
                       create_default_channel(loc[t].k)]
    /\ pc' = [pc EXCEPT ![t] = "ls_update"]
    /\ loc' = [loc EXCEPT ![t].bk = loc[t].k, ![t].ret = <<"ch_lock_client">>]
    /\ UNCHANGED <<clients, subscribedToLs, bannedUsers, wsSenders, chanLock, clientLock, evCount, now, advances>>
    /\ outbox' = Drained

\* the client after lines 455-466
Joined(c, cid, k) ==
    [c EXCEPT !.channel_id = k,
              !.participant = IF @ = Nil
                              THEN DefaultParticipant(cid, c.user_id) ELSE @]

\* lines 432-435: the client's write guard is taken; it is kept while the old
\* channel is left
ChannelLockClient(t) ==
    /\ UNCHANGED <<transport, conn>>
    /\ pc[t] = "ch_lock_client"
    /\ LET a == loc[t].a
           k == loc[t].k
           old == clients[a].channel_id
       IN
       /\ CanWrite(clientLock, a)
       /\ IF old # None /\ old # k
          THEN /\ clientLock' = AcqWrite(clientLock, a, t)
               /\ clients' = clients
               /\ IF channels[old] # Nil
                  THEN /\ pc' = [pc EXCEPT ![t] = "ch_leave"]
                       /\ loc' = [loc EXCEPT ![t].old = old,
                                             ![t].refs = @ \cup {old}]
                  ELSE /\ pc' = [pc EXCEPT ![t] = "bcast"]
                       /\ loc' = [loc EXCEPT ![t] =
                                     Bcast([@ EXCEPT !.old = old], old,
                                           <<"bye", a>>, a, <<"ch_set">>)]
          ELSE /\ clients' = [clients EXCEPT ![a] = Joined(@, a, k)]
               /\ pc' = [pc EXCEPT ![t] = "ch_join"]
               /\ loc' = [loc EXCEPT ![t].part =
                                       Joined(clients[a], a, k).participant]
               /\ UNCHANGED clientLock
    /\ UNCHANGED <<channels, subscribedToLs, bannedUsers, wsSenders, chanLock, evCount, now, advances>>
    /\ outbox' = Drained

\* lines 436-444: the old channel's write guard is taken under the client's
ChannelLeave(t) ==
    /\ UNCHANGED <<transport, conn>>
    /\ pc[t] = "ch_leave"
    /\ LET old == loc[t].old IN
       /\ CanWrite(chanLock, old)
       /\ chanLock' = AcqWrite(chanLock, old, t)
       /\ channels' = [channels EXCEPT ![old] =
              [@ EXCEPT !.participants = @ \ {loc[t].a},
                        !.ppl[loc[t].a] = Nil,
                        !.crown = CrownWithout(@, loc[t].a)]]
    /\ pc' = [pc EXCEPT ![t] = "ch_left"]
    /\ UNCHANGED <<clients, subscribedToLs, bannedUsers, wsSenders, clientLock, loc, evCount, now, advances>>
    /\ outbox' = Drained

\* line 445: the old channel's guard and Ref go out of scope
ChannelLeft(t) ==
    /\ UNCHANGED <<transport, conn>>
    /\ pc[t] = "ch_left"
    /\ chanLock' = RelWrite(chanLock, loc[t].old, t)
    /\ pc' = [pc EXCEPT ![t] = "bcast"]
    /\ loc' = [loc EXCEPT ![t] =
                  Bcast([@ EXCEPT !.refs = @ \ {loc[t].old}], loc[t].old,
                        <<"bye", loc[t].a>>, loc[t].a, <<"ch_set">>)]
    /\ UNCHANGED <<registry, clientLock, evCount, now, advances>>
    /\ outbox' = Drained

\* lines 455-472, after the old channel was left
ChannelSet(t) ==
    /\ UNCHANGED <<transport, conn>>
    /\ pc[t] = "ch_set"
    /\ clients' = [clients EXCEPT ![loc[t].a] = Joined(@, loc[t].a, loc[t].k)]
    /\ clientLock' = RelWrite(clientLock, loc[t].a, t)
    /\ pc' = [pc EXCEPT ![t] = "ch_join"]
    /\ loc' = [loc EXCEPT ![t].part =
                  Joined(clients[loc[t].a], loc[t].a, loc[t].k).participant]
    /\ UNCHANGED <<channels, subscribedToLs, bannedUsers, wsSenders, chanLock, evCount, now, advances>>
    /\ outbox' = Drained

\* a join that hands the crown to every joiner
CrownJoined_Always(crown, cid, uid) ==
    IF crown # Nil
    THEN [participant_id |-> cid, user_id |-> uid]
    ELSE crown

\* the crown after `cid` joined (lines 482-488)
CrownJoined(crown, cid, uid) ==
    IF crown # Nil /\ crown.participant_id = None
    THEN [participant_id |-> cid, user_id |-> uid]
    ELSE crown

\* lines 474-513
ChannelJoin(t) ==
    /\ UNCHANGED <<transport, conn>>
    /\ pc[t] = "ch_join"
    /\ LET a == loc[t].a
           k == loc[t].k
       IN
       IF channels[k] = Nil
       THEN /\ ReturnChannel(t)
            /\ UNCHANGED channels
            /\ outbox' = Drained
       ELSE /\ CanWrite(chanLock, k)
            /\ channels' = [channels EXCEPT ![k] =
                   [@ EXCEPT !.participants = @ \cup {a},
                             !.ppl[a] = loc[t].part,
                             !.crown = CrownJoined(@, a, loc[t].user)]]
            \* one message: the `ch` element and the `c` element with the
            \* channel's chat_history
            /\ outbox' = send_to_client(Drained, a,
                              <<"ch", k, channels[k].chat_history>>)
            /\ pc' = [pc EXCEPT ![t] = "bcast"]
            /\ loc' = [loc EXCEPT ![t] =
                          Bcast([@ EXCEPT !.refs = @ \cup {k},
                                          !.part = Nil], k,
                                <<"p", a>>, a, <<"ls_update", "ch_end">>)]
            /\ UNCHANGED <<chanLock, clientLock>>
    /\ UNCHANGED <<clients, subscribedToLs, bannedUsers, wsSenders, evCount,
                   now, advances>>

(***************************************************************************)
(* The start every crown-gated handler shares: the sender's ClientData is  *)
(* read for its channel_id, and the channel is looked up                   *)
(***************************************************************************)
\* the `set` objects of the chset events; an Option<bool> is <<>> or <<b>>
ChsetInputs ==
    {[visible |-> <<FALSE>>, chat |-> <<>>, crownsolo |-> <<>>],
     [visible |-> <<>>, chat |-> <<TRUE>>, crownsolo |-> <<TRUE>>]}

\* the handler cannot go on: no client, no channel_id, (when needed) no
\* participant, or no such channel
NoChannelOf(t, needsParticipant) ==
    \/ clients[t] = Nil
    \/ clients[t].channel_id = None
    \/ needsParticipant /\ clients[t].participant = Nil
    \/ channels[clients[t].channel_id] = Nil

\* the locals once the sender's channel is known
InChannel(t) ==
    [NoLoc EXCEPT !.chan = clients[t].channel_id,
                  !.refs = {clients[t].channel_id}]

(***************************************************************************)
(* MessageHandler::handle_channel_settings                                 *)
(***************************************************************************)
\* lines 530-550
handle_channel_settings(t, set) ==
    /\ UNCHANGED <<transport, conn>>
    /\ Receives(t)
    /\ clients[t] # Nil => CanRead(clientLock, t)
    /\ IF NoChannelOf(t, FALSE)
       THEN UNCHANGED <<pc, loc>>
       ELSE /\ pc' = [pc EXCEPT ![t] = "chset_lock"]
            /\ loc' = [loc EXCEPT ![t] = [InChannel(t) EXCEPT !.set = set]]
    /\ UNCHANGED <<registry, chanLock, clientLock, now, advances>>
    /\ outbox' = Drained

\* a settings check without the early return for special channels
MayChset_SpecialToo(ch, t) == ch.crown # Nil => ch.crown.participant_id = t

\* lines 554-562: the sender may change the settings
MayChset(ch, t) ==
    /\ ch.crown # Nil => ch.crown.participant_id = t
    /\ ~IsSpecial(ch._id)

\* lines 567-575
SettingsWith(settings, set) ==
    [settings EXCEPT
        !.visible = IF set.visible # <<>> THEN set.visible[1] ELSE @,
        !.chat = IF set.chat # <<>> THEN set.chat ELSE @,
        !.crownsolo = IF set.crownsolo # <<>> THEN set.crownsolo ELSE @]

\* lines 552-588
ChsetLock(t) ==
    /\ UNCHANGED <<transport, conn>>
    /\ pc[t] = "chset_lock"
    /\ LET k == loc[t].chan IN
       /\ CanWrite(chanLock, k)
       /\ IF MayChset(channels[k], t)
          THEN /\ channels' = [channels EXCEPT ![k].settings =
                                  SettingsWith(@, loc[t].set)]
               /\ pc' = [pc EXCEPT ![t] = "bcast"]
               /\ loc' = [loc EXCEPT ![t] =
                             Bcast(@, k, <<"ch", k>>, None,
                                   <<"ls_update", "idle">>)]
               /\ UNCHANGED <<chanLock, clientLock>>
          ELSE /\ Return(t)
               /\ UNCHANGED channels
    /\ UNCHANGED <<clients, subscribedToLs, bannedUsers, wsSenders, evCount, now, advances>>
    /\ outbox' = Drained

(***************************************************************************)
(* MessageHandler::handle_chown                                            *)
(***************************************************************************)
\* lines 594-616; target is data.id, None when absent
handle_chown(t, target) ==
    /\ UNCHANGED <<transport, conn>>
    /\ Receives(t)
    /\ clients[t] # Nil => CanRead(clientLock, t)
    /\ IF NoChannelOf(t, TRUE)
       THEN UNCHANGED <<pc, loc>>
       ELSE /\ pc' = [pc EXCEPT ![t] = "chown_lock"]
            /\ loc' = [loc EXCEPT ![t] =
                          [InChannel(t) EXCEPT
                              !.tcid = target,
                              !.user = clients[t].participant._id]]
    /\ UNCHANGED <<registry, chanLock, clientLock, now, advances>>
    /\ outbox' = Drained

\* lines 620-631: the sender may give the crown away
MayChown(ch, t) ==
    /\ ~ch.settings.lobby
    /\ ch.crown # Nil
    /\ ch.crown.participant_id = t

\* lines 618-634 and 649-657: the channel's write guard is taken; it is kept
\* while the target's ClientData is read
ChownLock(t) ==
    /\ UNCHANGED <<transport, conn>>
    /\ pc[t] = "chown_lock"
    /\ LET k == loc[t].chan
           target == loc[t].tcid
           update == Bcast(loc[t], k, <<"ch", k>>, None, <<"idle">>)
       IN
       /\ CanWrite(chanLock, k)
       /\ IF ~MayChown(channels[k], t)
          THEN /\ Return(t)
               /\ UNCHANGED channels
          ELSE IF target = None
          THEN /\ channels' = [channels EXCEPT ![k].crown =
                      [participant_id |-> None, user_id |-> loc[t].user]]
               /\ pc' = [pc EXCEPT ![t] = "bcast"]
               /\ loc' = [loc EXCEPT ![t] = update]
               /\ UNCHANGED <<chanLock, clientLock>>
          ELSE IF clients[target] = Nil
          THEN /\ pc' = [pc EXCEPT ![t] = "bcast"]
               /\ loc' = [loc EXCEPT ![t] = update]
               /\ UNCHANGED <<channels, chanLock, clientLock>>
          ELSE /\ chanLock' = AcqWrite(chanLock, k, t)
               /\ pc' = [pc EXCEPT ![t] = "chown_target"]
               /\ UNCHANGED <<channels, loc, clientLock>>
    /\ UNCHANGED <<clients, subscribedToLs, bannedUsers, wsSenders, evCount, now, advances>>
    /\ outbox' = Drained

\* lines 635-647
ChownTarget(t) ==
    /\ UNCHANGED <<transport, conn>>
    /\ pc[t] = "chown_target"
    /\ LET k == loc[t].chan
           target == loc[t].tcid
       IN
       /\ CanRead(clientLock, target)
       /\ IF clients[target].participant = Nil
          THEN /\ Return(t)
               /\ UNCHANGED channels
          ELSE /\ channels' = [channels EXCEPT ![k].crown =
                      [participant_id |-> target,
                       user_id |-> clients[target].user_id]]
               /\ chanLock' = RelWrite(chanLock, k, t)
               /\ pc' = [pc EXCEPT ![t] = "bcast"]
               /\ loc' = [loc EXCEPT ![t] =
                             Bcast(@, k, <<"ch", k>>, None, <<"idle">>)]
               /\ UNCHANGED clientLock
    /\ UNCHANGED <<clients, subscribedToLs, bannedUsers, wsSenders, evCount, now, advances>>
    /\ outbox' = Drained

(***************************************************************************)
(* MessageHandler::handle_kickban                                          *)
(***************************************************************************)
\* line 681
BanDuration(ms) == IF ms < MaxBanMs THEN ms ELSE MaxBanMs

\* lines 675-705
handle_kickban(t, uid, ms) ==
    /\ UNCHANGED <<transport, conn>>
    /\ Receives(t)
    /\ clients[t] # Nil => CanRead(clientLock, t)
    /\ IF NoChannelOf(t, TRUE)
       THEN UNCHANGED <<pc, loc>>
       ELSE /\ pc' = [pc EXCEPT ![t] = "kb_check"]
            /\ loc' = [loc EXCEPT ![t] =
                          [InChannel(t) EXCEPT !.uid = uid,
                                               !.ms = BanDuration(ms),
                                               !.kb = TRUE]]
    /\ UNCHANGED <<registry, chanLock, clientLock, now, advances>>
    /\ outbox' = Drained

\* the check without the comparison of the crown's holder
MayBan_CrownUnchecked(ch, t) == ~ch.settings.lobby

\* lines 709-717 (and 804-812): the sender may ban and unban
MayBan(ch, t) ==
    /\ ~ch.settings.lobby
    /\ ch.crown # Nil => ch.crown.participant_id = t

\* lines 707-719
KickbanCheck(t) ==
    /\ UNCHANGED <<transport, conn>>
    /\ pc[t] = "kb_check"
    /\ CanRead(chanLock, loc[t].chan)
    /\ IF MayBan(channels[loc[t].chan], t)
       THEN /\ pc' = [pc EXCEPT ![t] = "kb_scan"]
            /\ UNCHANGED <<loc, chanLock, clientLock>>
       ELSE Return(t)
    /\ UNCHANGED <<registry, evCount, now, advances>>
    /\ outbox' = Drained

\* the clients the loop of lines 724-733 can stop at
KickTargets(uid, k) ==
    {c \in Cids : /\ clients[c] # Nil
                  /\ clients[c].user_id = uid
                  /\ clients[c].channel_id = k}

\* lines 721-747: the scan reads the ClientData with the target's user id;
\* the ban is recorded when that client is in the sender's channel
KickbanScan(t) ==
    /\ UNCHANGED <<transport, conn>>
    /\ pc[t] = "kb_scan"
    /\ \A c \in Cids : (clients[c] # Nil /\ clients[c].user_id = loc[t].uid)
                          => CanRead(clientLock, c)
    /\ IF KickTargets(loc[t].uid, loc[t].chan) = {}
       THEN /\ Return(t)
            /\ UNCHANGED bannedUsers
       ELSE /\ \E c \in KickTargets(loc[t].uid, loc[t].chan) :
                  loc' = [loc EXCEPT ![t].tcid = c]
            /\ bannedUsers' = [bannedUsers EXCEPT ![loc[t].uid] =
                   [channel_id |-> loc[t].chan, expiry |-> now + loc[t].ms]]
            /\ pc' = [pc EXCEPT ![t] = "kb_force"]
            /\ UNCHANGED <<chanLock, clientLock>>
    /\ UNCHANGED <<channels, clients, subscribedToLs, wsSenders, evCount, now, advances>>
    /\ outbox' = Drained

\* lines 749-750: the target is made to join "test/awkward"
KickbanForce(t) ==
    /\ UNCHANGED <<transport, conn>>
    /\ pc[t] = "kb_force"
    /\ ChannelStart(t, loc[t].tcid, "test/awkward")
    /\ UNCHANGED <<registry, evCount, now, advances>>

\* lines 752-776: the private notice, the sender's user id is read again
KickbanNotify(t) ==
    /\ UNCHANGED <<transport, conn>>
    /\ pc[t] = "kb_notify"
    /\ CanRead(clientLock, t)
    /\ outbox' = send_to_client(Drained, loc[t].tcid, <<"notification", "ban">>)
    /\ pc' = [pc EXCEPT ![t] = "bcast"]
    /\ loc' = [loc EXCEPT ![t] =
                  Bcast(@, loc[t].chan, <<"notification", "kickban">>, None,
                        <<"idle">>)]
    /\ UNCHANGED <<registry, chanLock, clientLock, evCount, now, advances>>

(***************************************************************************)
(* MessageHandler::handle_unban                                            *)
(***************************************************************************)
\* lines 781-800: the sender's read guard is taken and kept
handle_unban(t, uid) ==
    /\ UNCHANGED <<transport, conn>>
    /\ Receives(t)
    /\ clients[t] # Nil => CanRead(clientLock, t)
    /\ IF NoChannelOf(t, FALSE)
       THEN UNCHANGED <<pc, loc, clientLock>>
       ELSE /\ clientLock' = AcqRead(clientLock, t, t)
            /\ pc' = [pc EXCEPT ![t] = "unban_check"]
            /\ loc' = [loc EXCEPT ![t] = [InChannel(t) EXCEPT !.uid = uid]]
    /\ UNCHANGED <<registry, chanLock, now, advances>>
    /\ outbox' = Drained

\* lines 802-816
UnbanCheck(t) ==
    /\ UNCHANGED <<transport, conn>>
    /\ pc[t] = "unban_check"
    /\ CanRead(chanLock, loc[t].chan)
    /\ IF MayBan(channels[loc[t].chan], t)
       THEN /\ bannedUsers' = [bannedUsers EXCEPT ![loc[t].uid] = Nil]
            /\ pc' = [pc EXCEPT ![t] = "bcast"]
            /\ loc' = [loc EXCEPT ![t] =
                          Bcast(@, loc[t].chan, <<"notification", "unban">>,
                                None, <<"idle">>)]
            /\ UNCHANGED <<chanLock, clientLock>>
       ELSE /\ Return(t)
            /\ UNCHANGED bannedUsers
    /\ UNCHANGED <<channels, clients, subscribedToLs, wsSenders, evCount, now, advances>>
    /\ outbox' = Drained

(***************************************************************************)
(* MessageHandler::handle_note                                             *)
(***************************************************************************)
\* |notes| of the `n` events
NoteCounts == {1, 24001}

\* the frame a rejected `n` sends
TooFast == <<"notification", "too fast">>

\* lines 199-236: the quota is spent under the client's write guard
handle_note(t, n) ==
    /\ UNCHANGED <<transport, conn>>
    /\ Receives(t)
    /\ IF clients[t] = Nil
       THEN /\ outbox' = Drained
            /\ UNCHANGED <<clients, pc, loc>>
       ELSE /\ CanWrite(clientLock, t)
            /\ LET r == spend(clients[t].note_quota, n) IN
               \/ /\ clients' = [clients EXCEPT ![t].note_quota = r.q]
                  /\ IF ~r.ok
                     THEN /\ outbox' = send_to_client(Drained, t, TooFast)
                          /\ UNCHANGED <<pc, loc>>
                     ELSE /\ outbox' = Drained
                          /\ IF clients[t].channel_id = None
                                \/ channels[clients[t].channel_id] = Nil
                             THEN UNCHANGED <<pc, loc>>
                             ELSE /\ pc' = [pc EXCEPT ![t] = "note_check"]
                                  /\ loc' = [loc EXCEPT ![t] = InChannel(t)]
               \* an overflow check of the build fails: the task panics
               \/ /\ SpendOverflows(clients[t].note_quota, n)
                  /\ outbox' = Drained
                  /\ pc' = [pc EXCEPT ![t] = "panicked"]
                  /\ UNCHANGED <<clients, loc>>
    /\ UNCHANGED <<channels, subscribedToLs, bannedUsers, wsSenders, chanLock,
                   clientLock, now, advances>>

\* lines 240-248: with crownsolo on, only the crown's holder is heard
MayPlay(ch, t) ==
    (ch.settings.crownsolo = <<TRUE>> /\ ch.crown # Nil)
        => ch.crown.participant_id = t

\* lines 238-257
NoteCheck(t) ==
    /\ UNCHANGED <<transport, conn>>
    /\ pc[t] = "note_check"
    /\ CanRead(chanLock, loc[t].chan)
    /\ IF MayPlay(channels[loc[t].chan], t)
       THEN /\ pc' = [pc EXCEPT ![t] = "bcast"]
            /\ loc' = [loc EXCEPT ![t] =
                          Bcast(@, loc[t].chan, <<"n", t>>, t, <<"idle">>)]
            /\ UNCHANGED <<chanLock, clientLock>>
       ELSE Return(t)
    /\ UNCHANGED <<registry, evCount, now, advances>>
    /\ outbox' = Drained

(***************************************************************************)
(* MessageHandler::handle_movement                                         *)
(***************************************************************************)
\* the x and y of the `m` events (events without a number in both are
\* dropped before any state is read)
MovePositions == {[x |-> 10, y |-> 20]}
\* moves closer together than this many ms are dropped
MoveGapMs == 50

\* lines 309-313
TooSoon(c) ==
    c.last_move_time # <<>> /\ now - c.last_move_time[1] < MoveGapMs

\* lines 294-329, under the client's write guard
handle_movement(t, p) ==
    /\ UNCHANGED <<transport, conn>>
    /\ Receives(t)
    /\ IF clients[t] = Nil
       THEN UNCHANGED <<clients, pc, loc>>
       ELSE /\ CanWrite(clientLock, t)
            /\ IF TooSoon(clients[t])
               THEN UNCHANGED <<clients, pc, loc>>
               ELSE /\ clients' =
                        [clients EXCEPT
                           ![t].last_move_time = <<now>>,
                           ![t].participant =
                               IF @ = Nil THEN @
                               ELSE [@ EXCEPT !.x = p.x, !.y = p.y]]
                    /\ IF clients[t].channel_id = None
                       THEN UNCHANGED <<pc, loc>>
                       ELSE /\ pc' = [pc EXCEPT ![t] = "bcast"]
                            /\ loc' = [loc EXCEPT ![t] =
                                   Bcast(NoLoc, clients[t].channel_id,
                                         <<"m", t, p>>, t, <<"idle">>)]
    /\ UNCHANGED <<channels, subscribedToLs, bannedUsers, wsSenders, chanLock,
                   clientLock, now, advances>>
    /\ outbox' = Drained

(***************************************************************************)
(* MessageHandler::handle_chat                                             *)
(***************************************************************************)
\* message.len() of the `a` events
ChatLens == {0, 256, 257}
\* the longest message that is passed on
MaxChatLen == 256

\* lines 150-181
handle_chat(t, len) ==
    /\ UNCHANGED <<transport, conn>>
    /\ Receives(t)
    /\ clients[t] # Nil => CanRead(clientLock, t)
    /\ IF len > MaxChatLen \/ NoChannelOf(t, TRUE)
       THEN UNCHANGED <<pc, loc>>
       ELSE /\ pc' = [pc EXCEPT ![t] = "chat_check"]
            /\ loc' = [loc EXCEPT ![t] = [InChannel(t) EXCEPT !.ms = len]]
    /\ UNCHANGED <<registry, chanLock, clientLock, now, advances>>
    /\ outbox' = Drained

\* line 185: settings.chat.unwrap_or(false)
MayChat(ch) == ch.settings.chat = <<TRUE>>

\* lines 183-194: the channel's write guard is taken for the check
ChatCheck(t) ==
    /\ UNCHANGED <<transport, conn>>
    /\ pc[t] = "chat_check"
    /\ CanWrite(chanLock, loc[t].chan)
    /\ IF MayChat(channels[loc[t].chan])
       THEN /\ pc' = [pc EXCEPT ![t] = "bcast"]
            /\ loc' = [loc EXCEPT ![t] =
                          Bcast(@, loc[t].chan, <<"a", t, loc[t].ms>>, None,
                                <<"idle">>)]
            /\ UNCHANGED <<chanLock, clientLock>>
       ELSE Return(t)
    /\ UNCHANGED <<registry, evCount, now, advances>>
    /\ outbox' = Drained

(***************************************************************************)
(* The system                                                              *)
(***************************************************************************)
Next ==
    \/ \E t \in Cids : Connect(t)
    \/ \E t \in Cids : Close(t)
    \/ \E d \in ClockJumps : AdvanceClock(d)
    \/ \E t \in Cids : broadcast_to_channel(t)
    \/ \E t \in Cids : broadcast_ls_update(t)
    \/ \E t \in Cids : handle_hi(t)
    \/ \E t \in Cids : handle_bye(t)
    \/ \E t \in Cids : handle_plus_ls(t)
    \/ \E t \in Cids : PlusLsReply(t)
    \/ \E t \in Cids : handle_minus_ls(t)
    \/ \E t \in Cids : DisconnectLock(t)
    \/ \E t \in Cids : DisconnectCrownUser(t)
    \/ \E t \in Cids : DisconnectCleanup(t)
    \/ \E t \in Cids, k \in JoinIds : handle_channel(t, k)
    \/ \E t \in Cids : ChannelCreate(t)
    \/ \E t \in Cids : ChannelLockClient(t)
    \/ \E t \in Cids : ChannelLeave(t)
    \/ \E t \in Cids : ChannelLeft(t)
    \/ \E t \in Cids : ChannelSet(t)
    \/ \E t \in Cids : ChannelJoin(t)
    \/ \E t \in Cids, set \in ChsetInputs : handle_channel_settings(t, set)
    \/ \E t \in Cids : ChsetLock(t)
    \/ \E t \in Cids, target \in Cids \cup {None} : handle_chown(t, target)
    \/ \E t \in Cids : ChownLock(t)
    \/ \E t \in Cids : ChownTarget(t)
    \/ \E t \in Cids, uid \in Cids, ms \in KickMs : handle_kickban(t, uid, ms)
    \/ \E t \in Cids : KickbanCheck(t)
    \/ \E t \in Cids : KickbanScan(t)
    \/ \E t \in Cids : KickbanForce(t)
    \/ \E t \in Cids : KickbanNotify(t)
    \/ \E t \in Cids, uid \in Cids : handle_unban(t, uid)
    \/ \E t \in Cids : UnbanCheck(t)
    \/ \E t \in Cids, n \in NoteCounts : handle_note(t, n)
    \/ \E t \in Cids : NoteCheck(t)
    \/ \E t \in Cids, len \in ChatLens : handle_chat(t, len)
    \/ \E t \in Cids : ChatCheck(t)
    \/ \E t \in Cids, p \in MovePositions : handle_movement(t, p)

Spec == Init /\ [][Next]_vars

(***************************************************************************)
(* Fairness: the runtime keeps polling every task, so a step of a          *)
(* connection task that stays possible is taken.  Receiving an event,      *)
(* closing and the clock are up to the peers and are not required.         *)
(***************************************************************************)
HandlerStep(t) ==
    \/ broadcast_to_channel(t)
    \/ broadcast_ls_update(t)
    \/ PlusLsReply(t)
    \/ DisconnectLock(t)
    \/ DisconnectCrownUser(t)
    \/ DisconnectCleanup(t)
    \/ ChannelCreate(t)
    \/ ChannelLockClient(t)
    \/ ChannelLeave(t)
    \/ ChannelLeft(t)
    \/ ChannelSet(t)
    \/ ChannelJoin(t)
    \/ ChsetLock(t)
    \/ ChownLock(t)
    \/ ChownTarget(t)
    \/ KickbanCheck(t)
    \/ KickbanScan(t)
    \/ KickbanForce(t)
    \/ KickbanNotify(t)
    \/ UnbanCheck(t)
    \/ NoteCheck(t)
    \/ ChatCheck(t)

FairSpec == Spec /\ \A t \in Cids : WF_vars(HandlerStep(t))

(***************************************************************************)
(* Properties                                                              *)
(***************************************************************************)
\* the channels that list cid as a participant
ChannelsOf(cid) == {k \in ChannelIds : cid \in Participants(k)}

\* task t is inside handle_disconnect
InDisconnect(t) ==
    pc[t] \in {"disc_lock", "disc_crown_user", "disc_after", "disc_cleanup"}
    \/ (pc[t] = "bcast" /\ loc[t].origin # None)

\* C1: a Disconnect of a client that is a participant of a channel runs to
\* completion: once it has taken the client out of the channel, it goes on
\* to remove the client from subscribedToLs and clients
C1_DisconnectCompletes ==
    \A t \in Cids : (pc[t] = "disc_lock") ~> (clients[t] = Nil)

\* C1, the step the claim rests on: whenever a task is about to broadcast
\* to a channel, it does not hold that channel's write lock itself
C1_LockReleasedBeforeBroadcast ==
    \A t \in Cids : pc[t] = "bcast" => chanLock[loc[t].bk].w # t

\* Disconnect(cid) has completed: handle_disconnect returned to the reader
\* loop (bye) or the connection loop has ended (close, error)
DisconnectCompleted(cid) ==
    \/ pc[cid] = "closed"
    \/ pc[cid] = "idle" /\ clients[cid] = Nil

\* C2: once Disconnect(cid) has completed, cid is in no participants map,
\* not in subscribedToLs, not in wsSenders and not in clients
C2_GoneAfterDisconnect ==
    \A c \in Cids : DisconnectCompleted(c) =>
        /\ ChannelsOf(c) = {}
        /\ c \notin subscribedToLs
        /\ c \notin wsSenders
        /\ clients[c] = Nil

\* C3: each connection id is a participant of at most one channel
C3_AtMostOneChannel ==
    \A c \in Cids : Cardinality(ChannelsOf(c)) <= 1

\* C4: every participant of a channel has a ClientData whose channel_id is
\* that channel
C4_ParticipantsPointBack ==
    \A k \in ChannelIds : \A c \in Participants(k) :
        clients[c] # Nil /\ clients[c].channel_id = k

\* C5: the holder of a channel's crown is a participant of that channel
C5_HolderIsParticipant ==
    \A k \in ChannelIds :
        (channels[k] # Nil /\ channels[k].crown # Nil
            /\ channels[k].crown.participant_id # None)
        => channels[k].crown.participant_id \in channels[k].participants

\* C6: no task holds two entity locks at the same time
C6_OneEntityLock ==
    \A t \in Cids : Cardinality(HeldLocks(t)) <= 1

\* the positions at which chset, chown, kickban and unban check the crown
AdminCheckPcs == {"chset_lock", "chown_lock", "kb_check", "unban_check"}

\* the sender of the admin event task t is handling has no admin rights in
\* the channel the handler resolved as its current one: that channel is
\* special, or the sender does not hold its crown
Unauthorized(t) ==
    LET ch == channels[loc[t].chan] IN
    \/ IsSpecial(ch._id)
    \/ ch.crown = Nil
    \/ ch.crown.participant_id # t

\* C7: a chset, chown, kickban or unban event whose sender, when the handler
\* checks the crown, is not the holder of its current channel, or whose
\* current channel is special, changes no channel (settings, crown,
\* participants), no ban entry and no client, and enqueues no frame: neither
\* when it is dispatched nor when it is checked, after which the handler
\* returns
C7_UnauthorizedChangesNothing ==
    [][\A t \in Cids :
        /\ (pc[t] = "idle" /\ pc'[t] \in AdminCheckPcs)
              => /\ channels' = channels
                 /\ bannedUsers' = bannedUsers
                 /\ outbox' = Drained
        /\ (pc[t] \in AdminCheckPcs /\ pc'[t] # pc[t] /\ Unauthorized(t))
              => /\ channels' = channels
                 /\ bannedUsers' = bannedUsers
                 /\ clients' = clients
                 /\ outbox' = Drained
                 /\ pc'[t] = "idle"]_vars

\* C7, its case: a participant of a non-special channel that does not hold
\* the crown has sent a kickban naming a client of that channel, and the
\* handler is about to check the crown
C7_NonHolderAtCheck ==
    \E t \in Cids :
        /\ pc[t] = "kb_check"
        /\ ~IsSpecial(loc[t].chan)
        /\ Unauthorized(t)
        /\ t \in Participants(loc[t].chan)
        /\ KickTargets(loc[t].uid, loc[t].chan) # {}

\* user uid has a ban for channel k that has not expired
BanInForce(uid, k) ==
    /\ bannedUsers[uid] # Nil
    /\ bannedUsers[uid].channel_id = k
    /\ bannedUsers[uid].expiry > now

\* a kickban of user uid from channel k has not returned yet
KickbanRunning(uid, k) ==
    \E t \in Cids : loc[t].kb /\ loc[t].uid = uid /\ loc[t].chan = k

\* C8: once the kickban of user U from channel X has returned, no connection
\* of U is a participant of X while U's ban for X is in bannedUsers and has
\* not expired
C8_NoBannedParticipant ==
    \A k \in ChannelIds : \A c \in Participants(k) :
        (clients[c] # Nil /\ BanInForce(clients[c].user_id, k))
            => KickbanRunning(clients[c].user_id, k)

\* the frame a refused `ch` sends
BannedNotice == <<"notification", "banned">>

\* C9: a `ch` naming channel X from a client whose user has an unexpired ban
\* for X changes no client (its channel_id stays) and no channel
\* (participants, crowns, the set of channels), and enqueues exactly one
\* notification, to the sender; with the ban expired (now >= expiry) the
\* same event is not refused: the handler goes on to join X, and its join
\* step makes the client a participant of X
C9_BannedChRefused ==
    [][\A t \in Cids :
        /\ \A k \in ChannelIds :
            (handle_channel(t, k) /\ clients[t] # Nil
                /\ bannedUsers[clients[t].user_id] # Nil
                /\ bannedUsers[clients[t].user_id].channel_id = k)
            => IF bannedUsers[clients[t].user_id].expiry > now
               THEN /\ clients' = clients
                    /\ channels' = channels
                    /\ outbox' = [Drained EXCEPT ![t] = <<BannedNotice>>]
                    /\ pc'[t] = "idle"
               ELSE /\ outbox' = Drained
                    /\ pc'[t] \in {"ch_create", "ch_lock_client"}
                    /\ loc'[t].a = t
                    /\ loc'[t].k = k
        /\ (pc[t] = "ch_join" /\ pc'[t] # "ch_join" /\ channels[loc[t].k] # Nil)
            => loc[t].a \in channels'[loc[t].k].participants]_vars

\* C9, its case: a client with an unexpired ban for a channel has just been
\* refused; it has the notification and is not in that channel
C9_RefusedWhileBanned ==
    \E t \in Cids : \E k \in ChannelIds :
        /\ clients[t] # Nil
        /\ BanInForce(clients[t].user_id, k)
        /\ pc[t] = "idle"
        /\ outbox[t] = <<BannedNotice>>
        /\ clients[t].channel_id # k

\* C9, its second case: a client whose ban for a channel has expired is a
\* participant of that channel again
C9_JoinedAfterExpiry ==
    \E t \in Cids : \E k \in ChannelIds :
        /\ clients[t] # Nil
        /\ bannedUsers[clients[t].user_id] # Nil
        /\ bannedUsers[clients[t].user_id].channel_id = k
        /\ bannedUsers[clients[t].user_id].expiry <= now
        /\ advances > 0
        /\ t \in Participants(k)
        /\ clients[t].channel_id = k

\* C10: a kickban by the holder of a non-special channel X that names the
\* user of a client in X records the ban {X, now + min(ms, 24h)}, never more
\* than 24 hours after the clock reading, and when its forced join has
\* returned the target is a participant of "test/awkward" and of no other
\* channel
C10_KickbanOutcome ==
    [][\A t \in Cids :
        /\ \A uid \in Cids : \A ms \in KickMs :
            (handle_kickban(t, uid, ms) /\ pc'[t] = "kb_check")
                => loc'[t].ms = IF ms > MaxBanMs THEN MaxBanMs ELSE ms
        /\ (pc[t] = "kb_scan" /\ pc'[t] = "kb_force")
            => /\ bannedUsers'[loc[t].uid] =
                    [channel_id |-> loc[t].chan, expiry |-> now + loc[t].ms]
               /\ bannedUsers'[loc[t].uid].expiry <= now + MaxBanMs
        /\ (pc[t] # "kb_notify" /\ pc'[t] = "kb_notify")
            => ChannelsOf(loc[t].tcid)' = {"test/awkward"}]_vars

\* C10, the ban alone: what the kickban records
C10_BanRecorded ==
    [][\A t \in Cids :
        /\ \A uid \in Cids : \A ms \in KickMs :
            (handle_kickban(t, uid, ms) /\ pc'[t] = "kb_check")
                => loc'[t].ms = IF ms > MaxBanMs THEN MaxBanMs ELSE ms
        /\ (pc[t] = "kb_scan" /\ pc'[t] = "kb_force")
            => /\ bannedUsers'[loc[t].uid] =
                    [channel_id |-> loc[t].chan, expiry |-> now + loc[t].ms]
               /\ bannedUsers'[loc[t].uid].expiry <= now + MaxBanMs]_vars

(***************************************************************************)
(* The NoteQuota of one connected client under every sequence of tick()    *)
(* and spend(n) calls                                                      *)
(***************************************************************************)
\* spend() calls and tick() calls of a run
MaxSpends == 4
MaxTicks == 3
\* |notes| of the spend() calls
SpendCounts == {0, 1, 8000, 24000, 536868}
\* the client whose quota is exercised
QuotaClient == "c1"

\* the state after QuotaClient connected
QuotaInit ==
    /\ transport = [c \in Cids |-> NewTransport]
    /\ conn = Conns({QuotaClient})
    /\ channels = [k \in ChannelIds |-> Nil]
    /\ clients = [c \in Cids |->
                    IF c = QuotaClient THEN NewClientData(c) ELSE Nil]
    /\ subscribedToLs = {}
    /\ bannedUsers = [u \in Cids |-> Nil]
    /\ wsSenders = {QuotaClient}
    /\ outbox = Drained
    /\ chanLock = [k \in ChannelIds |-> FreeLock]
    /\ clientLock = [c \in Cids |-> FreeLock]
    /\ pc = [c \in Cids |-> IF c = QuotaClient THEN "idle" ELSE "new"]
    /\ loc = [c \in Cids |-> NoLoc]
    /\ evCount = [c \in Cids |-> 0]
    /\ now = 0
    /\ advances = 0

\* note_quota.spend(n): the wrapped result, or a panic that leaves the quota
QuotaSpend(n) ==
    /\ UNCHANGED <<transport, conn>>
    /\ evCount[QuotaClient] < MaxSpends
    /\ evCount' = [evCount EXCEPT ![QuotaClient] = @ + 1]
    /\ \/ clients' = [clients EXCEPT ![QuotaClient].note_quota =
                         spend(@, n).q]
       \/ /\ SpendOverflows(clients[QuotaClient].note_quota, n)
          /\ UNCHANGED clients
    /\ UNCHANGED <<channels, subscribedToLs, bannedUsers, wsSenders, outbox,
                   chanLock, clientLock, pc, loc, now, advances>>

\* note_quota.tick(), one second later
QuotaTick ==
    /\ UNCHANGED <<transport, conn>>
    /\ advances < MaxTicks
    /\ advances' = advances + 1
    /\ now' = now + 1000
    /\ clients' = [clients EXCEPT ![QuotaClient].note_quota = tick(@)]
    /\ UNCHANGED <<channels, subscribedToLs, bannedUsers, wsSenders, outbox,
                   chanLock, clientLock, pc, loc, evCount>>

QuotaNext ==
    \/ \E n \in SpendCounts : QuotaSpend(n)
    \/ QuotaTick

QuotaSpec == QuotaInit /\ [][QuotaNext]_vars

\* C11: under every sequence of tick() and spend(n), n >= 0, from new(),
\* points stays within [0, max] and history has exactly max_hist_len
\* entries
C11_QuotaInRange ==
    \A c \in Cids : clients[c] # Nil =>
        /\ clients[c].note_quota.points >= 0
        /\ clients[c].note_quota.points <= MaxPoints
        /\ Len(clients[c].note_quota.history) = MaxHistLen

\* C11, the part that holds: history keeps exactly max_hist_len entries
C11_HistoryLength ==
    \A c \in Cids : clients[c] # Nil =>
        Len(clients[c].note_quota.history) = MaxHistLen

(***************************************************************************)
(* The ticker                                                              *)
(***************************************************************************)
\* a client that has spent points and is still connected
BelowMax(c) ==
    clients[c] # Nil /\ clients[c].note_quota.points < MaxPoints

\* C12: the ticker applies tick() to the quota of every client in the
\* registry, so once four periods of the ticker have passed a connected
\* client has its points back at max
C12_TickerRefills ==
    [][\A c \in Cids :
          (now' >= now + 4 * TickMs /\ clients[c] # Nil)
              => clients'[c].note_quota.points = MaxPoints]_vars

(***************************************************************************)
(* Notes                                                                   *)
(***************************************************************************)
\* the `n` event of n notes that t sends now is over its quota
Rejected(t, n) ==
    /\ clients[t] # Nil
    /\ ~spend(clients[t].note_quota, n).ok

\* C13: when the quota rejects an `n` event, the sender alone is enqueued
\* the too-fast notification, nothing else is enqueued to anybody, no
\* broadcast is started, and the sender's points and history stay as they
\* were
C13_RejectedNote ==
    [][\A t \in Cids, n \in NoteCounts :
          (handle_note(t, n) /\ Rejected(t, n))
              => /\ outbox' = [c \in Cids |->
                                  IF c = t THEN <<TooFast>> ELSE <<>>]
                 /\ clients'[t].note_quota = clients[t].note_quota
                 /\ pc'[t] = "idle"]_vars

\* C13: a sender that had spent points before has just been told it plays
\* too fast
C13_ToldTooFast ==
    \E t \in Cids :
        /\ outbox[t] = <<TooFast>>
        /\ BelowMax(t)

(***************************************************************************)
(* Broadcasts                                                              *)
(***************************************************************************)
\* the frames of kind m about client c in the queue q
RECURSIVE OwnFrames(_, _, _)
OwnFrames(q, m, c) ==
    IF q = <<>> THEN 0
    ELSE (IF Head(q)[1] = m /\ Head(q)[2] = c THEN 1 ELSE 0)
             + OwnFrames(Tail(q), m, c)

\* C14: one call of broadcast_to_channel enqueues its frame exactly once to
\* every participant the channel has at the call, the excluded one left
\* out, and nothing to any other connection; and no step enqueues to a
\* client an `n` or `m` frame of its own event
C14_BroadcastRecipients ==
    [][/\ \A t \in Cids :
             (broadcast_to_channel(t) /\ channels[loc[t].bk] # Nil)
                 => outbox' =
                        [c \in Cids |->
                            IF c \in channels[loc[t].bk].participants
                               /\ c # loc[t].bx
                            THEN <<loc[t].bf>> ELSE <<>>]
       /\ \A c \in Cids :
             OwnFrames(outbox'[c], "n", c) + OwnFrames(outbox'[c], "m", c) = 0
      ]_vars

\* C14: a note has just been passed on to the other member of a channel
\* with two participants
C14_NoteHeardByOther ==
    \E t \in Cids, c \in Cids, k \in ChannelIds :
        /\ t # c
        /\ channels[k] # Nil
        /\ {t, c} \subseteq channels[k].participants
        /\ outbox[c] = <<(<<"n", t>>)>>
        /\ outbox[t] = <<>>

(***************************************************************************)
(* The per-connection queue and its writer task (server.rs:67-86).         *)
(* WriterSpec: both connections are open; frames are sent to them by       *)
(* send_to_client and by broadcasts, the writer tasks move them to the     *)
(* transports, a write can fail, and a connection's sender can be removed. *)
(***************************************************************************)
\* sends a task makes before the connections only drain
MaxFrames == 2
\* the serialized messages sent
Frames == {<<"a", "c1", 1>>, <<"n", "c2">>}

WriterInit ==
    /\ transport = [c \in Cids |-> NewTransport]
    /\ conn = Conns(Cids)
    /\ channels = [k \in ChannelIds |-> Nil]
    /\ clients = [c \in Cids |-> NewClientData(c)]
    /\ subscribedToLs = {}
    /\ bannedUsers = [u \in Cids |-> Nil]
    /\ wsSenders = Cids
    /\ outbox = Drained
    /\ chanLock = [k \in ChannelIds |-> FreeLock]
    /\ clientLock = [c \in Cids |-> FreeLock]
    /\ pc = [c \in Cids |-> "idle"]
    /\ loc = [c \in Cids |-> NoLoc]
    /\ evCount = [c \in Cids |-> 0]
    /\ now = 0
    /\ advances = 0

\* sender.send(f) of send_to_client: Err once the receiver is dropped
Accepts(ob, c, f) ==
    IF transport[c].failed THEN ob ELSE send_to_client(ob, c, f)

RECURSIVE AcceptEach(_, _, _)
AcceptEach(ob, S, f) ==
    IF S = {} THEN ob
    ELSE LET c == CHOOSE x \in S : TRUE
         IN  AcceptEach(Accepts(ob, c, f), S \ {c}, f)

\* some task sends f to every connection of S (one send_to_client, or the
\* loop of a broadcast)
Enqueue(t, S, f) ==
    /\ evCount[t] < MaxFrames
    /\ evCount' = [evCount EXCEPT ![t] = @ + 1]
    /\ outbox' = AcceptEach(outbox, S, f)
    /\ UNCHANGED <<registry, transport, conn, chanLock, clientLock, pc, loc,
                   now, advances>>

\* a writer that takes the newest frame of the queue
Received_Newest(q) == [msg |-> q[Len(q)], rest |-> SubSeq(q, 1, Len(q) - 1)]

\* rx.recv() on a non-empty queue: the oldest frame, and what stays queued
Received(q) == [msg |-> Head(q), rest |-> Tail(q)]

\* lines 78-80: the writer task of c takes a frame and writes it
Writer(c) ==
    /\ ~transport[c].failed
    /\ outbox[c] # <<>>
    /\ outbox' = [outbox EXCEPT ![c] = Received(@).rest]
    /\ transport' = [transport EXCEPT
                        ![c].written = Append(@, Received(outbox[c]).msg)]
    /\ UNCHANGED <<registry, conn, chanLock, clientLock, pc, loc, evCount,
                   now, advances>>

\* lines 80-83: the write fails; the task ends and drops rx with what is
\* queued
WriteFails(c) ==
    /\ ~transport[c].failed
    /\ outbox[c] # <<>>
    /\ outbox' = [outbox EXCEPT ![c] = <<>>]
    /\ transport' = [transport EXCEPT ![c].failed = TRUE]
    /\ UNCHANGED <<registry, conn, chanLock, clientLock, pc, loc, evCount,
                   now, advances>>

\* line 133: the connection's sender is removed; the writer still drains
\* the queue
RemoveSender(c) ==
    /\ c \in wsSenders
    /\ pc[c] = "idle"
    /\ wsSenders' = wsSenders \ {c}
    /\ conn' = [conn EXCEPT ![c].tx_stored = FALSE]
    /\ pc' = [pc EXCEPT ![c] = "closed"]
    /\ UNCHANGED <<channels, clients, subscribedToLs, bannedUsers, outbox,
                   transport, chanLock, clientLock, loc, evCount, now,
                   advances>>

WriterNext ==
    \/ \E t \in Cids, S \in (SUBSET Cids) \ {{}}, f \in Frames :
           Enqueue(t, S, f)
    \/ \E c \in Cids : Writer(c)
    \/ \E c \in Cids : WriteFails(c)
    \/ \E c \in Cids : RemoveSender(c)

\* the writer task is scheduled, and a write to the transport ends, well or
\* with an error
WriterSpec ==
    /\ WriterInit
    /\ [][WriterNext]_vars
    /\ \A c \in Cids : WF_vars(Writer(c) \/ WriteFails(c))

\* every frame c's queue has accepted: the written ones, then the queued
Accepted(c) == transport[c].written \o outbox[c]

\* p is q, or q with frames added at its end
IsPrefix(p, q) ==
    Len(p) <= Len(q) /\ SubSeq(q, 1, Len(p)) = p

\* C15: while the writer of a connection runs, the frames written to its
\* transport followed by the frames still queued are the frames enqueued
\* for it, in the order of enqueueing: a step only adds frames at the end
\* of that sequence, a write moves the oldest queued frame to the
\* transport, and every queued frame is written in the end
C15_WrittenInOrder ==
    /\ [][\A c \in Cids :
            ~transport'[c].failed
                => /\ IsPrefix(Accepted(c), Accepted(c)')
                   /\ IsPrefix(transport[c].written, transport'[c].written)
         ]_vars
    /\ \A c \in Cids : <>[](transport[c].failed \/ outbox[c] = <<>>)

\* C15: two different frames were enqueued for a connection and both have
\* been written
C15_TwoWritten ==
    \E c \in Cids :
        /\ ~transport[c].failed
        /\ Len(transport[c].written) = 2
        /\ transport[c].written[1] # transport[c].written[2]
        /\ outbox[c] = <<>>

(***************************************************************************)
(* Crownsolo.  RoomSpec starts where c1 has created r1 and switched        *)
(* crownsolo on in it and c2 has joined (a state Spec reaches, RoomReached)*)
(* and goes on with `chown` and `n` events.                                *)
(***************************************************************************)
\* the room both clients play in
Room == "r1"

\* r1 as c1's `ch` and `chset` and c2's `ch` leave it
RoomChannels ==
    [k \in ChannelIds |->
        IF k = Room
        THEN [create_default_channel(k) EXCEPT
                 !.settings.chat = <<TRUE>>,
                 !.settings.crownsolo = <<TRUE>>,
                 !.crown = [user_id |-> "c1", participant_id |-> "c1"],
                 !.participants = Cids,
                 !.ppl = [c \in Cids |-> DefaultParticipant(c, c)]]
        ELSE Nil]

RoomClients ==
    [c \in Cids |->
        [NewClientData(c) EXCEPT
            !.participant = DefaultParticipant(c, c),
            !.channel_id = Room]]

\* the registry and the tasks of RoomInit
RoomReached ==
    /\ channels = RoomChannels
    /\ clients = RoomClients
    /\ subscribedToLs = {}
    /\ bannedUsers = [u \in Cids |-> Nil]
    /\ wsSenders = Cids
    /\ chanLock = [k \in ChannelIds |-> FreeLock]
    /\ clientLock = [c \in Cids |-> FreeLock]
    /\ pc = [c \in Cids |-> "idle"]
    /\ loc = [c \in Cids |-> NoLoc]

RoomInit ==
    /\ RoomReached
    /\ transport = [c \in Cids |-> NewTransport]
    /\ conn = Conns(Cids)
    /\ outbox = Drained
    /\ evCount = [c \in Cids |-> 0]
    /\ now = 0
    /\ advances = 0

RoomNext ==
    \/ \E t \in Cids, target \in Cids \cup {None} : handle_chown(t, target)
    \/ \E t \in Cids : ChownLock(t)
    \/ \E t \in Cids : ChownTarget(t)
    \/ \E t \in Cids, n \in NoteCounts : handle_note(t, n)
    \/ \E t \in Cids : NoteCheck(t)
    \/ \E t \in Cids : broadcast_to_channel(t)

RoomSpec == RoomInit /\ [][RoomNext]_vars

\* the participant id on the crown of ch, None when nobody holds it
HolderOf(ch) == IF ch.crown = Nil THEN None ELSE ch.crown.participant_id

\* C16: in a channel with crownsolo on, an `n` event the quota accepted is
\* dropped exactly when the crown has a holder other than the sender; when
\* the sender holds the crown or nobody does, it goes on to the broadcast
\* that leaves out the sender
C16_CrownsoloDrop ==
    [][\A t \in Cids :
          (NoteCheck(t) /\ channels[loc[t].chan].settings.crownsolo = <<TRUE>>)
              => LET holder == HolderOf(channels[loc[t].chan]) IN
                 IF holder # None /\ holder # t
                 THEN pc'[t] = "idle"
                 ELSE /\ pc'[t] = "bcast"
                      /\ loc'[t].bk = loc[t].chan
                      /\ loc'[t].bx = t]_vars

(***************************************************************************)
(* Chat                                                                    *)
(***************************************************************************)
\* the `a` frames in the queue q whose message is empty
RECURSIVE EmptyChats(_)
EmptyChats(q) ==
    IF q = <<>> THEN 0
    ELSE (IF Head(q)[1] = "a" /\ Head(q)[3] = 0 THEN 1 ELSE 0)
             + EmptyChats(Tail(q))

\* C17: an `a` event goes on to the broadcast to all members, the sender
\* included, exactly when the sender is in a channel, the message is not
\* empty and at most 256 long, and the channel's chat setting is true;
\* otherwise the handler ends and nothing is enqueued, so no frame with an
\* empty message is ever enqueued
C17_ChatDelivered ==
    [][/\ \A t \in Cids, len \in ChatLens :
             handle_chat(t, len)
                 => (pc'[t] = "chat_check"
                        <=> /\ ~NoChannelOf(t, TRUE)
                            /\ len > 0
                            /\ len <= MaxChatLen)
       /\ \A t \in Cids :
             ChatCheck(t)
                 => IF channels[loc[t].chan].settings.chat = <<TRUE>>
                    THEN /\ pc'[t] = "bcast"
                         /\ loc'[t].bk = loc[t].chan
                         /\ loc'[t].bx = None
                    ELSE pc'[t] = "idle"
       /\ \A c \in Cids : EmptyChats(outbox'[c]) = 0
      ]_vars

\* C17: the frames enqueued never carry an empty chat message
C17_NoEmptyChat ==
    \A c \in Cids : EmptyChats(outbox[c]) = 0

(***************************************************************************)
(* Emptied channels                                                        *)
(***************************************************************************)
\* no handler and no Disconnect is in progress
Quiescent == \A t \in Cids : pc[t] \in {"new", "idle", "closed"}

\* C18: whenever no handler is in progress, every channel of the registry
\* that is not special has at least one participant
C18_NoEmptyChannel ==
    Quiescent
        => \A k \in ChannelIds :
               (channels[k] # Nil /\ ~IsSpecial(k)) => Participants(k) # {}

(***************************************************************************)
(* The channel directory                                                   *)
(***************************************************************************)
\* the queue q holds an `ls` update for channel k
RECURSIVE HasLsUpdate(_, _)
HasLsUpdate(q, k) ==
    /\ q # <<>>
    /\ \/ Head(q)[1] = "ls" /\ Head(q)[2] = k
       \/ HasLsUpdate(Tail(q), k)

\* Disconnect(t) has begun for the last participant of the visible,
\* non-special channel k, which it is to delete
LastLeaves(t, k) ==
    /\ pc[t] = "disc_lock"
    /\ loc[t].chan = k
    /\ ~IsSpecial(k)
    /\ channels[k] # Nil
    /\ channels[k].settings.visible
    /\ channels[k].participants = {t}

\* C19: when Disconnect deletes an empty, visible, non-special channel,
\* every connection subscribed to the directory is enqueued an `ls` update
\* for that channel
C19_DeletionAnnounced ==
    \A t \in Cids, s \in Cids :
        (s # t /\ LastLeaves(t, Room) /\ s \in subscribedToLs)
            ~> HasLsUpdate(outbox[s], Room)

\* channel k is in the registry and its settings.visible is false
Hidden(k) == channels[k] # Nil /\ ~channels[k].settings.visible

SharedId == "c1"

SharedInit ==
    /\ conn \in {Conns({}),
                 [t \in Cids |-> [NewConn(t) EXCEPT !.id = SharedId]]}
    /\ transport = [c \in Cids |-> NewTransport]
    /\ channels = [k \in ChannelIds |-> Nil]
    /\ clients = [c \in Cids |-> Nil]
    /\ subscribedToLs = {}
    /\ bannedUsers = [u \in Cids |-> Nil]
    /\ wsSenders = {}
    /\ outbox = Drained
    /\ chanLock = [k \in ChannelIds |-> FreeLock]
    /\ clientLock = [c \in Cids |-> FreeLock]
    /\ pc = [c \in Cids |-> "new"]
    /\ loc = [c \in Cids |-> NoLoc]
    /\ evCount = [c \in Cids |-> 0]
    /\ now = 0
    /\ advances = 0

SharedNext ==
    \/ \E t \in Cids : Connect(t)
    \/ \E t \in Cids : handle_minus_ls(t)
    \/ \E t \in Cids : Close(t)
    \/ \E t \in Cids : DisconnectCleanup(t)

SharedSpec == SharedInit /\ [][SharedNext]_vars

\* the reader loop of connection t is running
LoopRunning(t) ==
    /\ pc[t] \notin {"new", "closed", "panicked"}
    /\ loc[t].origin # "close"

\* C21: while the loop of a connection runs, wsSenders has an entry under
\* the connection's id, the entry is the sender of that connection, and
\* clients has the ClientData of the id; also when another connection
\* derives the same id
C21_LoopKeepsEntries ==
    \A t \in Cids :
        LoopRunning(t)
            => /\ IdOf(t) \in wsSenders
               /\ conn[t].tx_stored
               /\ clients[IdOf(t)] # Nil

(***************************************************************************)
(* Write failures                                                          *)
(***************************************************************************)
\* C22: once a write to the transport of a connection has failed, the
\* connection is closed in the end and its wsSenders entry removed, whether
\* or not its peer sends anything more
C22_FailureDisconnects ==
    \A c \in Cids :
        transport[c].failed ~> (pc[c] = "closed" /\ c \notin wsSenders)

(***************************************************************************)
(* The crown at a join                                                     *)
(***************************************************************************)
\* the crown of channel record ch has no holder
Unheld(ch) == ch.crown # Nil /\ ch.crown.participant_id = None

\* C23: a join into a channel that is not special and whose crown has no
\* holder gives the crown to the joiner, with the joiner's id and user id; a
\* join into a channel whose crown has a holder leaves the crown as it was
C23_JoinTakesFreeCrown ==
    [][\A t \in Cids :
          (ChannelJoin(t) /\ channels[loc[t].k] # Nil) =>
              LET a == loc[t].a
                  before == channels[loc[t].k]
                  after == channels'[loc[t].k]
              IN
              /\ (~IsSpecial(loc[t].k) /\ Unheld(before)) =>
                    /\ after.crown.participant_id = a
                    /\ clients[a] # Nil =>
                          after.crown.user_id = clients[a].user_id
              /\ (before.crown # Nil /\ ~Unheld(before)) =>
                    after.crown = before.crown]_vars

\* both clients are in one channel that is not special, the first joiner
\* holding its crown
C23_SecondJoinerWithoutCrown ==
    \E k \in ChannelIds :
        /\ ~IsSpecial(k)
        /\ channels[k] # Nil
        /\ channels[k].participants = Cids
        /\ channels[k].crown.participant_id \in Cids

(***************************************************************************)
(* The crown at a chown                                                    *)
(***************************************************************************)
\* `target` is the connection id of a client that has joined a channel
JoinedClient(target) ==
    /\ target # None
    /\ clients[target] # Nil
    /\ clients[target].participant # Nil

\* C24: a chown of the crown's holder gives the crown to data.id when that
\* is the id of a joined client, and in every other case releases it: no
\* holder, and the user id of the holder that released it
C24_ChownTransfersOrReleases ==
    [][\A t \in Cids :
          /\ (ChownLock(t) /\ MayChown(channels[loc[t].chan], t)) =>
                \/ JoinedClient(loc[t].tcid)
                \/ channels'[loc[t].chan].crown =
                       [participant_id |-> None, user_id |-> loc[t].user]
          /\ ChownTarget(t) =>
                IF JoinedClient(loc[t].tcid)
                THEN channels'[loc[t].chan].crown =
                        [participant_id |-> loc[t].tcid,
                         user_id |-> clients[loc[t].tcid].user_id]
                ELSE channels'[loc[t].chan].crown =
                        [participant_id |-> None, user_id |-> loc[t].user]]_vars

(***************************************************************************)
(* The crown at a disconnect                                               *)
(***************************************************************************)
\* C25: when Disconnect takes the crown's holder out of a channel, the crown
\* goes to one of the participants that remain, with that participant's
\* user id; when none remains the crown has no holder
C25_CrownPassedOn ==
    [][\A t \in Cids :
          /\ (DisconnectLock(t) /\ HolderOf(channels[loc[t].chan]) = t) =>
                LET ch == channels[loc[t].chan]
                    after == channels'[loc[t].chan]
                IN
                IF ch.participants \ {t} = {}
                THEN after.crown.participant_id = None
                ELSE /\ after.crown.participant_id \in after.participants
                     /\ clients[after.crown.participant_id] # Nil
          /\ DisconnectCrownUser(t) =>
                LET after == channels'[loc[t].chan] IN
                /\ after.crown.participant_id \in after.participants
                /\ after.crown.user_id =
                       clients[after.crown.participant_id].user_id]_vars

\* a disconnect has passed the crown to the other participant and goes on to
\* its bye broadcast
C25_CrownWithOther ==
    \E t \in Cids :
        /\ pc[t] = "bcast"
        /\ loc[t].ret = <<"disc_after">>
        /\ LET ch == channels[loc[t].chan] IN
           /\ ch.crown # Nil
           /\ ch.crown.participant_id \in ch.participants \ {t}
           /\ ch.crown.user_id = clients[ch.crown.participant_id].user_id

(***************************************************************************)
(* Special channels                                                        *)
(***************************************************************************)
\* C26: a special channel (lobby, test/...) has no crown object and keeps
\* lobby, visible and chat true whatever is sent to it; every other channel
\* has a crown object and lobby false
C26_SpecialChannelsFixed ==
    \A k \in ChannelIds :
        channels[k] # Nil =>
            IF IsSpecial(k)
            THEN /\ channels[k].crown = Nil
                 /\ channels[k].settings.lobby
                 /\ channels[k].settings.visible
                 /\ channels[k].settings.chat = <<TRUE>>
            ELSE /\ channels[k].crown # Nil
                 /\ ~channels[k].settings.lobby

\* a chset that would hide the channel has reached the settings check of a
\* special channel
C26_ChsetInSpecial ==
    \E t \in Cids :
        /\ pc[t] = "chset_lock"
        /\ IsSpecial(loc[t].chan)
        /\ loc[t].set.visible = <<FALSE>>

(***************************************************************************)
(* Chat history                                                            *)
(***************************************************************************)
\* C27: every chat message that is broadcast is appended to the channel's
\* chatHistory, so that the `c` frame of a later joiner lists it
C27_ChatRemembered ==
    [][\A t \in Cids :
          (ChatCheck(t) /\ MayChat(channels[loc[t].chan])) =>
              LET before == channels[loc[t].chan].chat_history
                  after == channels'[loc[t].chan].chat_history
              IN
              /\ Len(after) = Len(before) + 1
              /\ SubSeq(after, 1, Len(before)) = before
              /\ after[Len(after)] = <<t, loc[t].ms>>]_vars

(***************************************************************************)
(* FrameSpec: the reader loop of handle_connection over the text frames a  *)
(* peer sends.  A text frame is a JSON array of elements or something      *)
(* else; an element has a string `m` or has none.  The items of a          *)
(* connection are what the loop meets one after the other: a frame that is *)
(* no array, or an element of an array.                                    *)
(***************************************************************************)
Arr(elems) == [array |-> TRUE, elems |-> elems]
NotJson == [array |-> FALSE, elems |-> <<>>]
NoM == [m |-> <<>>]
Ev(m) == [m |-> <<m>>]

\* the frames a peer may send
FrameInputs ==
    {<<Arr(<<NoM, Ev("+ls")>>), NotJson, Arr(<<Ev("-ls")>>)>>,
     <<NotJson, Arr(<<Ev("-ls"), NoM, Ev("+ls")>>)>>,
     <<Arr(<<>>), Arr(<<Ev("+ls")>>), NotJson>>,
     <<Arr(<<Ev("-ls"), Ev("-ls")>>)>>}

\* server.rs:98-100: from_str::<Vec<Value>> and the loop over its elements
RECURSIVE Items(_)
Items(frames) ==
    IF frames = <<>> THEN <<>>
    ELSE LET f == Head(frames) IN
         (IF f.array
          THEN [i \in 1..Len(f.elems) |-> [array |-> TRUE, m |-> f.elems[i].m]]
          ELSE <<[array |-> FALSE, m |-> <<>>]>>) \o Items(Tail(frames))

\* server.rs:98 and 101: the frame is an array, and from_value gives an
\* IncomingMessage, whose `m` is a String (types.rs:144-149)
Parses(item) == item.array /\ item.m # <<>>

\* the items connection t is past: those handled and those thrown away
Pos(t) == evCount[t] + conn[t].skipped

\* the reader of t meets an item
HasItem(t) == pc[t] = "idle" /\ Pos(t) < Len(Items(conn[t].frames))

Item(t) == Items(conn[t].frames)[Pos(t) + 1]

\* the reader of t meets an element with `m` = m
Reads(t, m) == HasItem(t) /\ Item(t) = [array |-> TRUE, m |-> <<m>>]

\* a reader that gives up the rest of its input at the first bad item
Discard_SkipsRest(t) ==
    /\ HasItem(t)
    /\ ~Parses(Item(t))
    /\ conn' = [conn EXCEPT ![t].skipped =
                    Len(Items(conn[t].frames)) - evCount[t]]
    /\ outbox' = Drained
    /\ UNCHANGED <<transport, registry, chanLock, clientLock, pc, loc,
                   evCount, now, advances>>

\* server.rs:110-116: an error is logged and the loop goes on
Discard(t) ==
    /\ HasItem(t)
    /\ ~Parses(Item(t))
    /\ conn' = [conn EXCEPT ![t].skipped = @ + 1]
    /\ outbox' = Drained
    /\ UNCHANGED <<transport, registry, chanLock, clientLock, pc, loc,
                   evCount, now, advances>>

FrameInit ==
    /\ conn \in {c \in [Cids -> [id : Cids, frames : FrameInputs,
                                  skipped : {0}, tx_stored : {FALSE}]] :
                    \A t \in Cids : c[t].id = t}
    /\ transport = [c \in Cids |-> NewTransport]
    /\ channels = [k \in ChannelIds |-> Nil]
    /\ clients = [c \in Cids |-> Nil]
    /\ subscribedToLs = {}
    /\ bannedUsers = [u \in Cids |-> Nil]
    /\ wsSenders = {}
    /\ outbox = [c \in Cids |-> <<>>]
    /\ chanLock = [k \in ChannelIds |-> FreeLock]
    /\ clientLock = [c \in Cids |-> FreeLock]
    /\ pc = [c \in Cids |-> "new"]
    /\ loc = [c \in Cids |-> NoLoc]
    /\ evCount = [c \in Cids |-> 0]
    /\ now = 0
    /\ advances = 0

FrameNext ==
    \/ \E t \in Cids : Connect(t)
    \/ \E t \in Cids : Discard(t)
    \/ \E t \in Cids : Reads(t, "+ls") /\ handle_plus_ls(t)
    \/ \E t \in Cids : PlusLsReply(t)
    \/ \E t \in Cids : Reads(t, "-ls") /\ handle_minus_ls(t)

FrameSpec == FrameInit /\ [][FrameNext]_vars

\* the events among the items connection t is past
Handled(t) == SelectSeq(SubSeq(Items(conn[t].frames), 1, Pos(t)), Parses)

\* C28: a text frame that is no JSON array, and an array element without a
\* string `m`, change nothing and enqueue nothing, and the connection stays
\* open; the elements and frames after them are handled in their order
C28_JunkSkipped ==
    /\ [](\A t \in Cids :
             pc[t] = "idle" =>
                /\ evCount[t] = Len(Handled(t))
                /\ t \in subscribedToLs <=>
                      /\ Handled(t) # <<>>
                      /\ Handled(t)[Len(Handled(t))].m = <<"+ls">>)
    /\ [][\A t \in Cids :
             Discard(t) =>
                /\ registry' = registry
                /\ outbox' = Drained
                /\ pc'[t] = "idle"
                /\ IdOf(t) \in wsSenders']_vars

\* a connection is past all its items: a frame that is no array and an
\* element without `m` were thrown away, and an event after them was handled
C28_AllItemsPassed ==
    \E t \in Cids :
        /\ pc[t] = "idle"
        /\ Pos(t) = Len(Items(conn[t].frames))
        /\ conn[t].skipped >= 2
        /\ evCount[t] >= 1

(***************************************************************************)
(* `+ls` and `-ls`                                                         *)
(***************************************************************************)
\* C29: a `-ls` takes the sender out of the subscribers, changes nothing
\* else and enqueues nothing, so that a `-ls` of a connection that is not
\* subscribed changes nothing at all; a `+ls` of such a connection adds only
\* the sender, so that `+ls` and then `-ls` leave the subscribers as before
C29_MinusLsIdempotent ==
    /\ [][\A t \in Cids :
             /\ (Reads(t, "-ls") /\ handle_minus_ls(t)) =>
                   /\ subscribedToLs' = subscribedToLs \ {IdOf(t)}
                   /\ IdOf(t) \notin subscribedToLs => registry' = registry
                   /\ UNCHANGED <<channels, clients, bannedUsers, wsSenders>>
                   /\ outbox' = Drained
             /\ (Reads(t, "+ls") /\ handle_plus_ls(t)
                   /\ t \notin subscribedToLs) =>
                   subscribedToLs' \ {t} = subscribedToLs]_vars
    /\ [](\A t \in Cids :
             (/\ pc[t] = "idle"
              /\ Len(Handled(t)) = 2
              /\ Handled(t)[2].m = <<"-ls">>) => t \notin subscribedToLs)

\* a connection has sent `+ls` and then `-ls` while the other one stayed
\* subscribed: the subscribers are the other one alone, as before the `+ls`
C29_RoundTripDone ==
    \E t \in Cids :
        /\ pc[t] = "idle"
        /\ Len(Handled(t)) = 2
        /\ Handled(t)[1].m = <<"+ls">>
        /\ Handled(t)[2].m = <<"-ls">>
        /\ subscribedToLs = Cids \ {t}

(***************************************************************************)
(* Two joins of a channel that does not exist yet                          *)
(***************************************************************************)
\* C30: when both clients have sent one `ch` for the same channel and both
\* handlers are through, at the same time or one after the other, the
\* registry holds the channel and both clients are in its participants
C30_BothJoined ==
    \A k \in ChannelIds :
        (\A t \in Cids :
            /\ pc[t] = "idle"
            /\ evCount[t] = 1
            /\ clients[t] # Nil
            /\ clients[t].channel_id = k) =>
                /\ channels[k] # Nil
                /\ channels[k].participants = Cids

(***************************************************************************)
(* `ch` against `chown`                                                    *)
(***************************************************************************)
\* task t is in handle_channel, holds the write guard of its ClientData and
\* waits for the write guard of the channel it leaves, which task h holds
\* in handle_chown while it waits for a read guard of the ClientData of t
CircularWait(t, h) ==
    /\ pc[t] = "ch_leave"
    /\ clientLock[loc[t].a].w = t
    /\ chanLock[loc[t].old].w = h
    /\ pc[h] = "chown_target"
    /\ loc[h].chan = loc[t].old
    /\ loc[h].tcid = loc[t].a

\* C31: a `ch` of client T that leaves channel A and a `chown` of A's crown
\* holder that names T never reach a state in which each handler waits for
\* a lock the other one holds
C31_NoCircularWait ==
    \A t \in Cids, h \in Cids : ~CircularWait(t, h)

(***************************************************************************)
(* The Participant a channel stores                                        *)
(***************************************************************************)
\* C32: after an `m` event of a channel member, the Participant stored
\* under its id in the channel's participants has the x and y of the
\* client's own participant record
C32_StoredParticipantCurrent ==
    [][\A t \in Cids, p \in MovePositions :
          handle_movement(t, p) =>
              \A k \in ChannelIds :
                  (/\ channels'[k] # Nil
                   /\ t \in channels'[k].participants
                   /\ clients'[t] # Nil) =>
                        channels'[k].ppl[t] = clients'[t].participant]_vars

(***************************************************************************)
(* BanSpec: c1 holds the crown of r1 and has kickbanned c2 from it for a   *)
(* day; c2 was moved to "test/awkward" and has gone on to r2 with a `ch`,  *)
(* which made r2 and gave c2 its crown.  From there c2 sends events; c1,   *)
(* the crown holder of r1, sends nothing, and the clock stands still.      *)
(***************************************************************************)
BanUser == "c2"
BanRoom == "r1"
BanExpiry == BanDuration(MaxBanMs)

\* channel k with its first joiner c
Founded(k, c) ==
    [create_default_channel(k) EXCEPT
        !.crown = CrownJoined(@, c, c),
        !.participants = {c},
        !.ppl[c] = DefaultParticipant(c, c)]

BanInit ==
    /\ channels = [k \in ChannelIds |->
                      CASE k = BanRoom -> Founded(k, "c1")
                        [] k = "r2" -> Founded(k, BanUser)
                        [] k = "test/awkward" -> create_default_channel(k)
                        [] OTHER -> Nil]
    /\ clients = [c \in Cids |->
                     [NewClientData(c) EXCEPT
                         !.participant = DefaultParticipant(c, c),
                         !.channel_id = IF c = BanUser THEN "r2"
                                        ELSE BanRoom]]
    /\ bannedUsers = [u \in Cids |->
                         IF u = BanUser
                         THEN [channel_id |-> BanRoom, expiry |-> BanExpiry]
                         ELSE Nil]
    /\ subscribedToLs = {}
    /\ wsSenders = Cids
    /\ transport = [c \in Cids |-> NewTransport]
    /\ conn = Conns(Cids)
    /\ outbox = Drained
    /\ chanLock = [k \in ChannelIds |-> FreeLock]
    /\ clientLock = [c \in Cids |-> FreeLock]
    /\ pc = [c \in Cids |-> "idle"]
    /\ loc = [c \in Cids |-> NoLoc]
    /\ evCount = [c \in Cids |-> 0]
    /\ now = 0
    /\ advances = 0

BanNext ==
    \/ \E k \in ChannelIds : handle_channel(BanUser, k)
    \/ ChannelCreate(BanUser)
    \/ ChannelLockClient(BanUser)
    \/ ChannelLeave(BanUser)
    \/ ChannelLeft(BanUser)
    \/ ChannelSet(BanUser)
    \/ ChannelJoin(BanUser)
    \/ broadcast_to_channel(BanUser)
    \/ broadcast_ls_update(BanUser)
    \/ \E uid \in Cids, ms \in KickMs : handle_kickban(BanUser, uid, ms)
    \/ KickbanCheck(BanUser)
    \/ KickbanScan(BanUser)
    \/ KickbanForce(BanUser)
    \/ KickbanNotify(BanUser)
    \/ \E uid \in Cids : handle_unban(BanUser, uid)
    \/ UnbanCheck(BanUser)

BanSpec == BanInit /\ [][BanNext]_vars

\* C33: the ban of a user for a channel stays in force until it expires or
\* the channel's crown holder unbans the user: while the holder of r1 does
\* nothing and the ban has not expired, no kickban and no unban in another
\* channel lets a `ch` of the banned user insert it into r1
C33_BanInForce ==
    [][\A t \in Cids :
          ~(/\ ChannelJoin(t)
            /\ loc[t].a = BanUser
            /\ loc[t].k = BanRoom
            /\ now < BanExpiry
            /\ BanUser \in channels'[BanRoom].participants)]_vars

(***************************************************************************)
(* Subscribers and clients                                                 *)
(***************************************************************************)
\* C34: every connection id in subscribedToLs has an entry in clients, also
\* after the connection has sent `bye` and goes on sending events
C34_SubscribersAreClients ==
    \A c \in subscribedToLs : clients[c] # Nil
====
